---- MODULE Spec2Model ----
(***************************************************************************)
(* Backend-Infrastructure-Toolkit: the message queue                       *)
(* (components/messaging/message-queue/message_queue.py) and the LRU cache *)
(* (components/caching/LRUcache-system/LRUcache_system.py) as state        *)
(* machines.  Every public operation is one action: the code runs each of  *)
(* them under the instance's re-entrant lock.                              *)
(***************************************************************************)
EXTENDS Integers, Sequences, FiniteSets, TLC

VARIABLES
    \* ---- MessageQueue ----
    qcfg,                 \* constructor arguments of the MessageQueue
    queue,                \* self._queue: the pending container
    processing_messages,  \* self._processing_messages: id -> Message
    dead_letter_queue,    \* self._dead_letter_queue._queue
    qmetrics,             \* self.metrics (the four counters)
    storage,              \* the files under storage_path: {[ns, id, msg]}
    now,                  \* time.time()
    next_uid,             \* number of Message objects created so far
    returned,             \* history: ids publish() has returned
    completed,            \* history: ids acknowledge() has completed
    delivered,            \* history: uid -> times consume() returned it, times requeued
    run,                  \* history: messages consumed since the last put
    qlast,                \* history: the last call, its arguments and result
    observe,              \* the histories this behaviour records (fixed by Init)
    qlocked,              \* self._lock is held by a purge() that never returns
    shutdown_event,       \* self._shutdown_event.is_set()
    qorder,               \* history: uids in the order publishes committed / consume returned
    threads,              \* producer / consumer threads of the concurrent test
    \* ---- LRUCache ----
    ccfg,                 \* constructor arguments of the LRUCache
    hooks,                \* self._hooks: what each registered hook does when called
    cache,                \* self._cache: OrderedDict, first = least recently used
    metrics,              \* self.metrics (unused when enable_metrics is False)
    locked,               \* self._lock is held by a call that never returns
    snapshot,             \* the string the caller got from serialize()
    clast,                \* history: the last cache call, its result and hook events
    recency,              \* history: keys held, in the order of their last get-hit or set
    \* ---- LogAnalyticsEngine ----
    all_logs,             \* self.all_logs: every ingested entry, in ingestion order
    time_index,           \* self.time_index.root: AVL tree keyed by timestamp string
    level_index,          \* self.level_index: level -> entries
    source_index,         \* self.source_index: source -> entries
    keyword_index,        \* self.keyword_index: word -> set of entries
    alert_rules,          \* self.alert_rules, with each rule's last_triggered
    triggered_alerts,     \* self.triggered_alerts
    alert_hooks,          \* history: the hooks a caller handed over, and their calls
    elast                 \* history: the last engine call and what it returned

qvars == <<qcfg, queue, processing_messages, dead_letter_queue, qmetrics,
           storage, now, next_uid, returned, completed, delivered, run, qlast,
           observe, qlocked, shutdown_event, qorder, threads>>

cvars == <<ccfg, hooks, cache, metrics, locked, snapshot, clast, recency>>

evars == <<all_logs, time_index, level_index, source_index, keyword_index,
           alert_rules, triggered_alerts, alert_hooks, elast>>

vars == <<qvars, cvars, evars>>

-----------------------------------------------------------------------------
(* Bounds of the model *)

MaxMsgs == 2          \* Message objects created in one behaviour
MaxBatch == 2         \* largest batch_size passed to consume
PerProducer == 1      \* messages each producer thread publishes in SpecConc
PrioMsgs == 3         \* Message objects created in one behaviour of SpecPrio

-----------------------------------------------------------------------------
(* Message, MessagePriority, MessageStatus, QueueType *)

NoneVal == -1         \* Python's None for an Optional[float] / Optional[str]

LOW == 1
NORMAL == 2
HIGH == 3
URGENT == 4
MessagePriority == {LOW, NORMAL, HIGH, URGENT}

DefaultMaxRetries == 3

QueueType == {"fifo", "lifo", "priority", "delay"}

\* Message(id=..., priority=..., delay_until=...): the other fields default.
\* uid is the identity of the Python object; generated ids are uuid4 strings,
\* which never collide with each other or with a caller's id.
SuppliedIds == {1}
Uuid4(uid) == 100 + uid

NewMessage(uid, id, priority, delay_until, t) ==
    [uid |-> uid, id |-> id, priority |-> priority, created_at |-> t,
     processed_at |-> NoneVal, retry_count |-> 0,
     max_retries |-> DefaultMaxRetries, delay_until |-> delay_until,
     status |-> "pending", consumer_id |-> "none"]

\* Message.__lt__ with the creation time not negated: newer messages first
MessageLtNewerFirst(a, b) ==
    \/ a.priority > b.priority
    \/ a.priority = b.priority /\ a.created_at > b.created_at

\* Message.__lt__: higher priority first, then older messages
MessageLt(a, b) ==
    \/ a.priority > b.priority
    \/ a.priority = b.priority /\ (0 - a.created_at) > (0 - b.created_at)

\* An element of a container: the message, and for the DelayQueue the first
\* component of the (delay_until, message) tuple (0 in the other variants).
\* Tuples compare on the first component that differs; two messages with equal
\* fields are equal, and then neither tuple is less than the other.
EntryLt(qt, a, b) ==
    IF qt = "delay"
    THEN IF a.key # b.key THEN a.key < b.key
         ELSE IF a.msg = b.msg THEN FALSE ELSE MessageLt(a.msg, b.msg)
    ELSE MessageLt(a.msg, b.msg)

-----------------------------------------------------------------------------
(* heapq, as PriorityQueue and DelayQueue use it (0-based positions) *)

RECURSIVE siftdown(_, _, _, _, _)
siftdown(qt, heap, startpos, pos, newitem) ==
    LET parentpos == (pos - 1) \div 2 IN
    IF pos > startpos /\ EntryLt(qt, newitem, heap[parentpos + 1])
    THEN siftdown(qt, [heap EXCEPT ![pos + 1] = heap[parentpos + 1]],
                  startpos, parentpos, newitem)
    ELSE [heap EXCEPT ![pos + 1] = newitem]

RECURSIVE siftup_loop(_, _, _)
siftup_loop(qt, heap, pos) ==
    LET childpos == 2 * pos + 1
        rightpos == childpos + 1
        c == IF rightpos < Len(heap)
                /\ ~EntryLt(qt, heap[childpos + 1], heap[rightpos + 1])
             THEN rightpos ELSE childpos
    IN IF childpos < Len(heap)
       THEN siftup_loop(qt, [heap EXCEPT ![pos + 1] = heap[c + 1]], c)
       ELSE <<heap, pos>>

siftup(qt, heap, pos) ==
    LET r == siftup_loop(qt, heap, pos)
    IN siftdown(qt, r[1], pos, r[2], heap[pos + 1])

heappush(qt, heap, item) ==
    siftdown(qt, Append(heap, item), 0, Len(heap), item)

\* <<smallest item, heap without it>>
heappop(qt, heap) ==
    LET lastelt == heap[Len(heap)]
        rest == SubSeq(heap, 1, Len(heap) - 1)
    IN IF rest # <<>>
       THEN <<rest[1], siftup(qt, [rest EXCEPT ![1] = lastelt], 0)>>
       ELSE <<lastelt, rest>>

-----------------------------------------------------------------------------
(* FIFOQueue, LIFOQueue, PriorityQueue, DelayQueue *)

\* put that keys every DelayQueue element by the time of the put
QueuePutNow(qt, maxsize, q, item, t) ==
    IF maxsize > 0 /\ Len(q) >= maxsize
    THEN [ok |-> FALSE, q |-> q]
    ELSE IF qt \in {"fifo", "lifo"}
         THEN [ok |-> TRUE, q |-> Append(q, [key |-> 0, msg |-> item])]
         ELSE [ok |-> TRUE,
               q |-> heappush(qt, q, [key |-> IF qt = "delay" THEN t ELSE 0,
                                      msg |-> item])]

\* put that does not look at maxsize
QueuePutUnbounded(qt, maxsize, q, item, t) ==
    IF qt \in {"fifo", "lifo"}
    THEN [ok |-> TRUE, q |-> Append(q, [key |-> 0, msg |-> item])]
    ELSE [ok |-> TRUE,
          q |-> heappush(qt, q,
                   [key |-> IF qt # "delay" THEN 0
                            ELSE IF item.delay_until = NoneVal \/ item.delay_until = 0
                                 THEN t ELSE item.delay_until,
                    msg |-> item])]

\* put: [ok, q]; False and no change when the container is full
QueuePut(qt, maxsize, q, item, t) ==
    IF maxsize > 0 /\ Len(q) >= maxsize
    THEN [ok |-> FALSE, q |-> q]
    ELSE CASE qt = "fifo" -> [ok |-> TRUE, q |-> Append(q, [key |-> 0, msg |-> item])]
           [] qt = "lifo" -> [ok |-> TRUE, q |-> Append(q, [key |-> 0, msg |-> item])]
           [] qt = "priority" ->
                [ok |-> TRUE, q |-> heappush(qt, q, [key |-> 0, msg |-> item])]
           [] qt = "delay" ->
                \* delay_until = item.delay_until or time.time()
                LET delay_until == IF item.delay_until = NoneVal \/ item.delay_until = 0
                                   THEN t ELSE item.delay_until
                IN [ok |-> TRUE,
                    q |-> heappush(qt, q, [key |-> delay_until, msg |-> item])]

\* get that returns the head and leaves it in the container
QueueGetPeek(qt, q, t) ==
    IF q = <<>>
    THEN [some |-> FALSE, q |-> q]
    ELSE [some |-> TRUE, msg |-> q[1].msg, q |-> q]

\* get whose FIFOQueue pops the newest message (deque.pop)
QueueGetNewest(qt, q, t) ==
    IF q = <<>> \/ (qt = "delay" /\ q[1].key > t)
    THEN [some |-> FALSE, q |-> q]
    ELSE IF qt \in {"fifo", "lifo"}
         THEN [some |-> TRUE, msg |-> q[Len(q)].msg, q |-> SubSeq(q, 1, Len(q) - 1)]
         ELSE LET r == heappop(qt, q) IN [some |-> TRUE, msg |-> r[1].msg, q |-> r[2]]

\* get: [some, msg, q]; none when the container is empty (or nothing is due)
QueueGet(qt, q, t) ==
    IF q = <<>>
    THEN [some |-> FALSE, q |-> q]
    ELSE CASE qt = "fifo" -> [some |-> TRUE, msg |-> Head(q).msg, q |-> Tail(q)]
           [] qt = "lifo" ->
                [some |-> TRUE, msg |-> q[Len(q)].msg, q |-> SubSeq(q, 1, Len(q) - 1)]
           [] qt = "priority" ->
                LET r == heappop(qt, q) IN [some |-> TRUE, msg |-> r[1].msg, q |-> r[2]]
           [] qt = "delay" ->
                IF q[1].key <= t
                THEN LET r == heappop(qt, q)
                     IN [some |-> TRUE, msg |-> r[1].msg, q |-> r[2]]
                ELSE [some |-> FALSE, q |-> q]

-----------------------------------------------------------------------------
(* PersistenceManager: one file <storage_path>/<ns>/<id>.pkl per message *)

save_message(files, ns, message) ==
    {f \in files : ~(f.ns = ns /\ f.id = message.id)}
        \cup {[ns |-> ns, id |-> message.id, msg |-> message]}

delete_message(files, ns, message_id) ==
    {f \in files : ~(f.ns = ns /\ f.id = message_id)}

Persist(files, ns, message) ==
    IF qcfg.enable_persistence THEN save_message(files, ns, message) ELSE files

-----------------------------------------------------------------------------
(* MessageQueue *)

DefaultDeadLetterMaxsize == 1000
SmallMaxsize == 1     \* the bounded maxsize / dead_letter_maxsize that is tried

ConsumerIds == {"consumer_1"}
MessageIds == SuppliedIds \cup {Uuid4(u) : u \in 1..MaxMsgs}

QueueMetrics ==
    [messages_published |-> 0, messages_consumed |-> 0,
     messages_failed |-> 0, messages_retried |-> 0]

NoCall ==
    [op |-> "init", id |-> NoneVal, requeue |-> FALSE, ok |-> TRUE, msgs |-> <<>>,
     consumer_id |-> "", batch_size |-> 0, count |-> 0]

\* A history variable changes only in the behaviours that record it
Rec(history, old, new) == IF history \in observe THEN new ELSE old

Pop(table, id) == [i \in DOMAIN table \ {id} |-> table[i]]
Store(table, id, m) == [i \in DOMAIN table \cup {id} |-> IF i = id THEN m ELSE table[i]]

\* The body of publish() under self._lock, for an already constructed Message
PublishCommit(message) ==
    LET r == QueuePut(qcfg.queue_type, qcfg.maxsize, queue, message, now)
    IN IF ~r.ok
       THEN \* raise RuntimeError("Queue is full")
            /\ qlast' = Rec("calls", qlast, [NoCall EXCEPT !.op = "publish", !.id = message.id,
                                       !.ok = FALSE, !.msgs = <<message>>])
            /\ UNCHANGED <<queue, storage, qmetrics, returned, run, qorder>>
       ELSE /\ queue' = r.q
            /\ storage' = Persist(storage, "q", message)
            /\ qmetrics' = [qmetrics EXCEPT !.messages_published = @ + 1]
            /\ returned' = Rec("ledger", returned, returned \cup {message.id})
            /\ qorder' = Rec("order", qorder,
                            [qorder EXCEPT !.committed = Append(@, message.uid)])
            /\ run' = Rec("run", run, <<>>)
            /\ qlast' = Rec("calls", qlast, [NoCall EXCEPT !.op = "publish", !.id = message.id,
                                       !.msgs = <<message>>])

\* publish(payload, priority, delay, headers, message_id)
Publish(priority, delay, message_id) ==
    /\ LET uid == next_uid + 1
           message == NewMessage(
               uid,
               IF message_id = NoneVal THEN Uuid4(uid) ELSE message_id,
               priority,
               IF delay = NoneVal \/ delay = 0 THEN NoneVal ELSE now + delay,
               now)
       IN /\ next_uid' = uid
          /\ delivered' = Rec("delivered", delivered,
                               Append(delivered, [consumed |-> 0, requeued |-> 0]))
          /\ PublishCommit(message)
    /\ UNCHANGED <<qcfg, processing_messages, dead_letter_queue, now, completed,
                   observe, qlocked, shutdown_event, threads, cvars, evars>>

\* The loop of consume() without the processed_at stamp
RECURSIVE ConsumeLoopUnstamped(_, _, _, _, _, _)
ConsumeLoopUnstamped(consumer_id, n, q, table, files, msgs) ==
    LET g == QueueGet(qcfg.queue_type, q, now) IN
    IF n = 0 \/ ~g.some
    THEN [q |-> q, table |-> table, files |-> files, msgs |-> msgs]
    ELSE LET message == [g.msg EXCEPT !.status = "processing",
                                      !.consumer_id = consumer_id]
         IN ConsumeLoopUnstamped(consumer_id, n - 1, g.q,
                                 Store(table, message.id, message),
                                 Persist(files, "q", message),
                                 Append(msgs, message))

\* The loop of consume(): [q, table, files, msgs] after at most n gets
RECURSIVE ConsumeLoop(_, _, _, _, _, _)
ConsumeLoop(consumer_id, n, q, table, files, msgs) ==
    LET g == QueueGet(qcfg.queue_type, q, now) IN
    IF n = 0 \/ ~g.some
    THEN [q |-> q, table |-> table, files |-> files, msgs |-> msgs]
    ELSE LET message == [g.msg EXCEPT !.status = "processing",
                                      !.consumer_id = consumer_id,
                                      !.processed_at = now]
         IN ConsumeLoop(consumer_id, n - 1, g.q,
                        Store(table, message.id, message),
                        Persist(files, "q", message),
                        Append(msgs, message))

CountDelivered(d, msgs) ==
    [u \in DOMAIN d |->
        [d[u] EXCEPT !.consumed =
            @ + Cardinality({i \in DOMAIN msgs : msgs[i].uid = u})]]

\* consume(consumer_id, timeout, batch_size)
ConsumeCall(consumer_id, batch_size) ==
    LET r == ConsumeLoop(consumer_id, batch_size, queue, processing_messages,
                         storage, <<>>)
    IN /\ queue' = r.q
       /\ processing_messages' = r.table
       /\ storage' = r.files
       /\ qmetrics' = [qmetrics EXCEPT !.messages_consumed = @ + Len(r.msgs)]
       /\ delivered' = Rec("delivered", delivered, CountDelivered(delivered, r.msgs))
       /\ run' = Rec("run", run, run \o r.msgs)
       /\ qorder' = Rec("order", qorder,
             [qorder EXCEPT !.consumed =
                 @ \o [i \in DOMAIN r.msgs |-> r.msgs[i].uid]])
       /\ qlast' = Rec("calls", qlast,
             [NoCall EXCEPT !.op = "consume", !.msgs = r.msgs,
                 !.consumer_id = consumer_id, !.batch_size = batch_size])

Consume(consumer_id, batch_size) ==
    /\ ConsumeCall(consumer_id, batch_size)
    /\ UNCHANGED <<qcfg, dead_letter_queue, now, next_uid, returned, completed,
                   observe, qlocked, shutdown_event, threads, cvars, evars>>

\* acknowledge that reports success for an id it does not hold
AcknowledgeCallLenient(message_id) ==
    IF message_id \notin DOMAIN processing_messages
    THEN /\ qlast' = Rec("calls", qlast, [NoCall EXCEPT !.op = "acknowledge", !.id = message_id])
         /\ UNCHANGED <<processing_messages, storage, completed>>
    ELSE /\ processing_messages' = Pop(processing_messages, message_id)
         /\ storage' = IF qcfg.enable_persistence
                       THEN delete_message(storage, "q", message_id)
                       ELSE storage
         /\ completed' = Rec("ledger", completed, completed \cup {message_id})
         /\ qlast' = Rec("calls", qlast, [NoCall EXCEPT !.op = "acknowledge", !.id = message_id,
                 !.msgs = <<[processing_messages[message_id] EXCEPT !.status = "completed"]>>])

\* acknowledge(message_id)
AcknowledgeCall(message_id) ==
    IF message_id \notin DOMAIN processing_messages
    THEN /\ qlast' = Rec("calls", qlast, [NoCall EXCEPT !.op = "acknowledge", !.id = message_id,
                                    !.ok = FALSE])
         /\ UNCHANGED <<processing_messages, storage, completed>>
    ELSE LET message == [processing_messages[message_id]
                            EXCEPT !.status = "completed"]
         IN /\ processing_messages' = Pop(processing_messages, message_id)
            /\ storage' = IF qcfg.enable_persistence
                          THEN delete_message(storage, "q", message_id)
                          ELSE storage
            /\ completed' = Rec("ledger", completed, completed \cup {message_id})
            /\ qlast' = Rec("calls", qlast, [NoCall EXCEPT !.op = "acknowledge", !.id = message_id,
                                       !.msgs = <<message>>])

Acknowledge(message_id) ==
    /\ AcknowledgeCall(message_id)
    /\ UNCHANGED <<qcfg, queue, dead_letter_queue, qmetrics, now, next_uid,
                   returned, delivered, run, observe, qlocked, shutdown_event, qorder, threads, cvars, evars>>

\* nack(message_id, requeue)
NackCall(message_id, requeue) ==
    IF message_id \notin DOMAIN processing_messages
    THEN /\ qlast' = Rec("calls", qlast, [NoCall EXCEPT !.op = "nack", !.id = message_id,
                                    !.requeue = requeue, !.ok = FALSE])
         /\ UNCHANGED <<queue, processing_messages, dead_letter_queue, qmetrics,
                        storage, run, delivered>>
    ELSE LET popped == [processing_messages[message_id]
                           EXCEPT !.retry_count = @ + 1]
             retry == requeue /\ popped.retry_count <= popped.max_retries
             message == [popped EXCEPT !.status =
                            IF retry THEN "pending"
                            ELSE IF qcfg.enable_dead_letter THEN "dead_letter"
                            ELSE "failed"]
             rq == QueuePut(qcfg.queue_type, qcfg.maxsize, queue, message, now)
             dl == QueuePut("fifo", qcfg.dead_letter_maxsize, dead_letter_queue,
                            message, now)
         IN /\ processing_messages' = Pop(processing_messages, message_id)
            /\ queue' = IF retry THEN rq.q ELSE queue
            /\ dead_letter_queue' =
                  IF ~retry /\ qcfg.enable_dead_letter THEN dl.q
                  ELSE dead_letter_queue
            /\ qmetrics' = IF retry
                           THEN [qmetrics EXCEPT !.messages_retried = @ + 1]
                           ELSE [qmetrics EXCEPT !.messages_failed = @ + 1]
            /\ storage' = Persist(storage,
                                  IF retry THEN "q" ELSE "q_failed", message)
            /\ run' = Rec("run", run, IF retry /\ rq.ok THEN <<>> ELSE run)
            /\ delivered' = Rec("delivered", delivered,
                  IF retry
                  THEN [delivered EXCEPT ![message.uid].requeued = @ + 1]
                  ELSE delivered)
            /\ qlast' = Rec("calls", qlast, [NoCall EXCEPT !.op = "nack", !.id = message_id,
                                       !.requeue = requeue, !.msgs = <<message>>])

Nack(message_id, requeue) ==
    /\ NackCall(message_id, requeue)
    /\ UNCHANGED <<qcfg, now, next_uid, returned, completed, observe, qlocked, shutdown_event, qorder, threads, cvars, evars>>

\* tests.py, test_dead_letter_queue: the caller lowers max_retries of the
\* message it has just consumed for the first time
TestMaxRetries == {0, 1}

SetMaxRetries(message_id, m) ==
    /\ message_id \in DOMAIN processing_messages
    /\ processing_messages[message_id].retry_count = 0
    /\ processing_messages[message_id].max_retries = DefaultMaxRetries
    /\ processing_messages' =
          [processing_messages EXCEPT ![message_id].max_retries = m]
    /\ UNCHANGED <<qcfg, queue, dead_letter_queue, qmetrics, storage, now,
                   next_uid, returned, completed, delivered, run, qlast, observe, qlocked, shutdown_event, qorder, threads, cvars, evars>>

\* time.time() advances
Tick ==
    /\ now' = now + 1
    /\ UNCHANGED <<qcfg, queue, processing_messages, dead_letter_queue, qmetrics,
                   storage, next_uid, returned, completed, delivered, run, qlast,
                   observe, qlocked, shutdown_event, qorder, threads, cvars, evars>>

-----------------------------------------------------------------------------
(* LRUCache: CacheEntry, CacheMetrics, hooks *)

MaxCount == 2         \* cap of every metrics counter and of access_count
SmallCacheSize == 2     \* the largest max_size that is tried
SmallMemoryBytes == 32 \* max_memory_mb * 1024 * 1024 for max_memory_mb = 32 / 2^20
MaxTime == 2          \* last instant the clock of the cache shows

\* A key is an int or a str; v is its printed form
Key(t, v) == [t |-> t, v |-> v]
NoKey == Key("str", "")

\* str(key)
Str(key) == Key("str", key.v)

\* The return value None, and None as a default
None == "None"

\* len(pickle.dumps(value)) of a short str: PROTO, FRAME, SHORT_BINUNICODE,
\* MEMOIZE and STOP take 15 bytes
PickleOverhead == 15
calculate_size(value) == PickleOverhead + Len(value)

CacheEntry(key, value, access_time, creation_time, ttl, access_count, size) ==
    [key |-> key, value |-> value, access_time |-> access_time,
     creation_time |-> creation_time, ttl |-> ttl,
     access_count |-> access_count, size |-> size]

\* is_expired that also holds at the deadline itself
is_expired_at_deadline(entry, t) ==
    IF entry.ttl = NoneVal THEN FALSE ELSE t >= entry.creation_time + entry.ttl

\* CacheEntry.is_expired with time.time() = t
is_expired(entry, t) ==
    IF entry.ttl = NoneVal THEN FALSE ELSE t > entry.creation_time + entry.ttl

\* CacheEntry.touch
touch(entry, t) ==
    [entry EXCEPT !.access_time = t, !.access_count = @ + 1]

CacheMetrics ==
    [hits |-> 0, misses |-> 0, sets |-> 0, deletes |-> 0, evictions |-> 0,
     expirations |-> 0, total_size |-> 0, peak_size |-> 0]

\* if self.metrics: self.metrics.<field> += n
Add(m, field, n) ==
    IF ccfg.enable_metrics THEN [m EXCEPT ![field] = @ + n] ELSE m

\* The events of a call in the order they are fired
Fired(ev, key) == [ev |-> ev, key |-> key]

\* A _fire_hook_* call: the event, and the entries and counters as the hooks
\* find them at that point of the operation.  Every call site is inside the
\* with self._lock block of its operation.
Event(ev, key, c, m) ==
    [ev |-> ev, key |-> key, cache |-> c, metrics |-> m, held |-> TRUE]

\* fired: the events; seen: what the hooks found at each; called: the hooks
\* each event was given to; quiet: the outcome had every hook returned
NoCacheCall ==
    [op |-> "init", key |-> NoKey, default |-> None, result |-> None,
     list |-> <<>>, fired |-> <<>>, seen |-> <<>>, called |-> <<>>,
     quiet |-> <<>>]

\* for hook in self._hooks: hook.on_x(...) with no try around the call: the
\* first hook that raises ends the loop and the exception leaves it
fire_hook_unguarded(hs) ==
    LET raising == {i \in DOMAIN hs : hs[i] = "raises"} IN
    IF raising = {}
    THEN [called |-> [i \in DOMAIN hs |-> i], escaped |-> FALSE]
    ELSE LET first == CHOOSE i \in raising : \A j \in raising : i <= j
         IN [called |-> [i \in 1..first |-> i], escaped |-> TRUE]

\* for hook in self._hooks: try: hook.on_x(...) except Exception: logger.error
fire_hook(hs) ==
    [called |-> [i \in DOMAIN hs |-> i], escaped |-> FALSE]

-----------------------------------------------------------------------------
(* OrderedDict *)

Has(c, key) == \E i \in DOMAIN c : c[i].key = key
Entry(c, key) == c[CHOOSE i \in DOMAIN c : c[i].key = key]
KeySet(c) == {c[i].key : i \in DOMAIN c}

\* c.pop(key)
cache_pop(c, key) == SelectSeq(c, LAMBDA e : e.key # key)

\* move_to_end that leaves the order alone
move_to_end_noop(c, key) == c

\* c.move_to_end(key)
move_to_end(c, key) == Append(cache_pop(c, key), Entry(c, key))

\* c[key] = entry: in place when the key is there, at the end otherwise
setitem(c, key, entry) ==
    IF Has(c, key)
    THEN [i \in DOMAIN c |-> IF c[i].key = key THEN entry ELSE c[i]]
    ELSE Append(c, entry)

\* The expired entries of c, in order, and the others
Expired(c, t) == SelectSeq(c, LAMBDA e : is_expired(e, t))
Valid(c, t) == SelectSeq(c, LAMBDA e : ~is_expired(e, t))

\* The history of use: key is the most recent; only keys held are kept
Touch(r, key) == Append(SelectSeq(r, LAMBDA k : k # key), key)
Held(r, c) == SelectSeq(r, LAMBDA k : Has(c, k))

-----------------------------------------------------------------------------
(* LRUCache operations; each runs under self._lock *)

\* _evict_lru that leaves total_size as it was
evict_lru_uncounted(c, m, fired) ==
    IF c = <<>>
    THEN [cache |-> c, metrics |-> m, fired |-> fired]
    ELSE [cache |-> Tail(c),
          metrics |-> Add(m, "evictions", 1),
          fired |-> Append(fired, Event("evict", c[1].key, Tail(c), m))]

\* _evict_lru: [cache, metrics, fired]
evict_lru(c, m, fired) ==
    IF c = <<>>
    THEN [cache |-> c, metrics |-> m, fired |-> fired]
    ELSE [cache |-> Tail(c),
          metrics |-> Add(Add(m, "evictions", 1), "total_size", 0 - c[1].size),
          fired |-> Append(fired, Event("evict", c[1].key, Tail(c), m))]

\* _check_memory_limit
check_memory_limit(m) ==
    IF ccfg.max_memory_bytes = NoneVal THEN FALSE
    ELSE IF ccfg.enable_metrics THEN m.total_size > ccfg.max_memory_bytes
    ELSE FALSE

\* while len(self._cache) > self.max_size or self._check_memory_limit():
\*     self._evict_lru()
\* With nothing left to evict and the condition still true the loop never ends.
RECURSIVE EvictLoop(_, _, _)
EvictLoop(c, m, fired) ==
    IF Len(c) > ccfg.max_size \/ check_memory_limit(m)
    THEN IF c = <<>>
         THEN [cache |-> c, metrics |-> m, fired |-> fired, hung |-> TRUE]
         ELSE LET r == evict_lru(c, m, fired)
              IN EvictLoop(r.cache, r.metrics, r.fired)
    ELSE [cache |-> c, metrics |-> m, fired |-> fired, hung |-> FALSE]

\* What a call leaves when its hook loops went as d: the operation ran to its
\* end (entries c, counters m), or an exception left the first hook loop and
\* the operation stopped where that loop was called
Outcome(d, call, events, c, m) ==
    LET raised == d.escaped /\ events # <<>>
        done == IF raised THEN <<events[1]>> ELSE events
    IN [cache |-> IF raised THEN events[1].cache ELSE c,
        metrics |-> IF raised THEN events[1].metrics ELSE m,
        result |-> IF raised THEN "raised" ELSE call.result,
        list |-> IF raised THEN <<>> ELSE call.list,
        fired |-> [i \in DOMAIN done |-> Fired(done[i].ev, done[i].key)],
        seen |-> [i \in DOMAIN done |->
                    [cache |-> done[i].cache, metrics |-> done[i].metrics,
                     held |-> done[i].held]],
        called |-> [i \in DOMAIN done |-> d.called]]

\* The end of an operation that fires events: touched is the history of use
\* the operation leaves
Commit(call, events, c, m, touched) ==
    LET o == Outcome(fire_hook(hooks), call, events, c, m)
        q == Outcome(fire_hook([i \in DOMAIN hooks |-> "returns"]),
                     call, events, c, m)
    IN /\ cache' = o.cache
       /\ metrics' = o.metrics
       /\ recency' = Rec("recency", recency, Held(touched, o.cache))
       /\ clast' = Rec("ccalls", clast,
             [call EXCEPT !.result = o.result, !.list = o.list,
                          !.fired = o.fired,
                          !.seen = Rec("hooks", <<>>, o.seen),
                          !.called = Rec("hooks", <<>>, o.called),
                          !.quiet = Rec("hooks", <<>>,
                              <<[cache |-> q.cache, metrics |-> q.metrics,
                                 result |-> q.result, list |-> q.list,
                                 recency |-> Held(touched, q.cache)]>>)])

\* set(key, value, ttl)
Set(key, value, ttl) ==
    /\ ~locked
    /\ LET current_time == now
           effective_ttl == IF ttl # NoneVal THEN ttl ELSE ccfg.default_ttl
           entry_size == calculate_size(value)
           entry == CacheEntry(key, value, current_time, current_time,
                               effective_ttl, 1, entry_size)
           m1 == IF Has(cache, key)
                 THEN Add(metrics, "total_size", 0 - Entry(cache, key).size)
                 ELSE metrics
           c1 == move_to_end(setitem(cache, key, entry), key)
           m2 == Add(Add(m1, "sets", 1), "total_size", entry_size)
           m3 == IF ccfg.enable_metrics /\ m2.total_size > m2.peak_size
                 THEN [m2 EXCEPT !.peak_size = m2.total_size]
                 ELSE m2
           r == EvictLoop(c1, m3, <<>>)
       IN /\ locked' = r.hung
          /\ Commit([NoCacheCall EXCEPT !.op = "set", !.key = key],
                    IF r.hung THEN r.fired
                    ELSE Append(r.fired, Event("set", key, r.cache, r.metrics)),
                    r.cache, r.metrics, Touch(recency, key))
    /\ UNCHANGED <<ccfg, hooks, snapshot, qvars, evars>>

\* get(key, default)
Get(key, default) ==
    /\ ~locked
    /\ IF ~Has(cache, key)
       THEN Commit([NoCacheCall EXCEPT !.op = "get", !.key = key,
                       !.default = default, !.result = default],
                   <<Event("miss", key, cache, metrics)>>,
                   cache, Add(metrics, "misses", 1), recency)
       ELSE LET entry == Entry(cache, key)
                popped == cache_pop(cache, key)
                moved == setitem(move_to_end(cache, key), key, touch(entry, now))
            IN
            IF is_expired(entry, now)
            THEN Commit([NoCacheCall EXCEPT !.op = "get", !.key = key,
                            !.default = default, !.result = default],
                        <<Event("expire", key, popped, metrics),
                          Event("miss", key, popped, metrics)>>,
                        popped,
                        Add(Add(metrics, "misses", 1), "expirations", 1),
                        recency)
            ELSE Commit([NoCacheCall EXCEPT !.op = "get", !.key = key,
                            !.default = default, !.result = entry.value],
                        <<Event("hit", key, moved, metrics)>>,
                        moved, Add(metrics, "hits", 1), Touch(recency, key))
    /\ UNCHANGED <<ccfg, hooks, locked, snapshot, qvars, evars>>

\* delete(key)
Delete(key) ==
    /\ ~locked
    /\ IF ~Has(cache, key)
       THEN /\ clast' = Rec("ccalls", clast,
                  [NoCacheCall EXCEPT !.op = "delete", !.key = key,
                      !.result = "False"])
            /\ UNCHANGED <<cache, metrics, recency>>
       ELSE LET popped == cache_pop(cache, key)
                m1 == Add(Add(metrics, "deletes", 1), "total_size",
                          0 - Entry(cache, key).size)
            IN Commit([NoCacheCall EXCEPT !.op = "delete", !.key = key,
                          !.result = "True"],
                      <<Event("delete", key, popped, m1)>>,
                      popped, m1, recency)
    /\ UNCHANGED <<ccfg, hooks, locked, snapshot, qvars, evars>>

\* clear()
Clear ==
    /\ ~locked
    /\ cache' = <<>>
    /\ metrics' = IF ccfg.enable_metrics
                  THEN [metrics EXCEPT !.total_size = 0] ELSE metrics
    /\ recency' = Rec("recency", recency, <<>>)
    /\ clast' = Rec("ccalls", clast, [NoCacheCall EXCEPT !.op = "clear"])
    /\ UNCHANGED <<ccfg, hooks, locked, snapshot, qvars, evars>>

\* exists(key)
Exists(key) ==
    /\ ~locked
    /\ IF ~Has(cache, key)
       THEN /\ clast' = Rec("ccalls", clast,
                  [NoCacheCall EXCEPT !.op = "exists", !.key = key,
                      !.result = "False"])
            /\ UNCHANGED <<cache, metrics, recency>>
       ELSE IF is_expired(Entry(cache, key), now)
       THEN Commit([NoCacheCall EXCEPT !.op = "exists", !.key = key,
                       !.result = "False"],
                   <<Event("expire", key, cache_pop(cache, key), metrics)>>,
                   cache_pop(cache, key), Add(metrics, "expirations", 1),
                   recency)
       ELSE /\ clast' = Rec("ccalls", clast,
                  [NoCacheCall EXCEPT !.op = "exists", !.key = key,
                      !.result = "True"])
            /\ UNCHANGED <<cache, metrics, recency>>
    /\ UNCHANGED <<ccfg, hooks, locked, snapshot, qvars, evars>>

\* Popping every expired entry: the second loop of keys(), values(), items()
\* and _cleanup_expired()
PurgeExpired(op, list) ==
    LET expired == Expired(cache, now)
        \* the entries left once the first i expired ones are popped
        left(i) == SelectSeq(cache, LAMBDA e :
                      \A j \in 1..i : e.key # expired[j].key)
    IN Commit([NoCacheCall EXCEPT !.op = op, !.list = list],
              [i \in DOMAIN expired |->
                  Event("expire", expired[i].key, left(i),
                        Add(metrics, "expirations", i - 1))],
              Valid(cache, now), Add(metrics, "expirations", Len(expired)),
              recency)

\* keys(), values() and items() that list the expired entries too
KeysValuesItemsStale(what) ==
    /\ ~locked
    /\ PurgeExpired(what,
          [i \in DOMAIN cache |->
              [key |-> IF what = "values" THEN NoKey ELSE cache[i].key,
               value |-> IF what = "keys" THEN None ELSE cache[i].value]])
    /\ UNCHANGED <<ccfg, hooks, locked, snapshot, qvars, evars>>

\* keys(), values() and items(): what is a list of the valid entries
KeysValuesItems(what) ==
    /\ ~locked
    /\ LET valid == Valid(cache, now)
       IN PurgeExpired(what,
             [i \in DOMAIN valid |->
                 [key |-> IF what = "values" THEN NoKey ELSE valid[i].key,
                  value |-> IF what = "keys" THEN None ELSE valid[i].value]])
    /\ UNCHANGED <<ccfg, hooks, locked, snapshot, qvars, evars>>

\* _cleanup_expired(): one round of the cleanup thread
CleanupExpired ==
    /\ ~locked
    /\ PurgeExpired("cleanup", <<>>)
    /\ UNCHANGED <<ccfg, hooks, locked, snapshot, qvars, evars>>

\* reset_metrics() takes no lock: a set that is spinning in its eviction loop
\* on an empty cache then sees total_size = 0 and returns
reset_metrics ==
    /\ metrics' = IF ccfg.enable_metrics THEN CacheMetrics ELSE metrics
    /\ locked' = FALSE
    /\ clast' = Rec("ccalls", clast, [NoCacheCall EXCEPT !.op = "reset_metrics"])
    /\ UNCHANGED <<ccfg, hooks, cache, snapshot, recency, qvars, evars>>

\* The dict serialize() builds: str(key) -> fields, in insertion order.
\* origin is not in the JSON text: it remembers the key object of the entry
\* the record was made from, and deserialize never reads it.
RECURSIVE SerializableCache(_, _, _)
SerializableCache(c, t, d) ==
    IF c = <<>> THEN d
    ELSE LET entry == Head(c)
             record == [key |-> Str(entry.key), value |-> entry.value,
                        creation_time |-> entry.creation_time,
                        ttl |-> entry.ttl, access_count |-> entry.access_count,
                        origin |-> entry.key]
         IN SerializableCache(Tail(c), t,
               IF is_expired(entry, t) THEN d
               ELSE setitem(d, record.key, record))

\* serialize()
Serialize ==
    /\ ~locked
    /\ snapshot' = SerializableCache(cache, now, <<>>)
    /\ clast' = Rec("ccalls", clast, [NoCacheCall EXCEPT !.op = "serialize"])
    /\ UNCHANGED <<ccfg, hooks, cache, metrics, locked, recency, qvars, evars>>

\* The loop of deserialize() over json.loads(data)
RECURSIVE DeserializeLoop(_, _, _)
DeserializeLoop(cache_data, current_time, c) ==
    IF cache_data = <<>> THEN c
    ELSE LET entry_data == Head(cache_data)
             entry == CacheEntry(entry_data.key, entry_data.value, current_time,
                                 entry_data.creation_time, entry_data.ttl,
                                 entry_data.access_count,
                                 calculate_size(entry_data.value))
         IN DeserializeLoop(Tail(cache_data), current_time,
               IF /\ entry_data.ttl # NoneVal
                  /\ current_time > entry_data.creation_time + entry_data.ttl
               THEN c
               ELSE setitem(c, entry_data.key, entry))

\* deserialize(data)
Deserialize(data) ==
    /\ ~locked
    /\ cache' = DeserializeLoop(data, now, cache)
    /\ recency' = Rec("recency", recency, Held(recency, DeserializeLoop(data, now, cache)))
    /\ clast' = Rec("ccalls", clast, [NoCacheCall EXCEPT !.op = "deserialize"])
    /\ UNCHANGED <<ccfg, hooks, metrics, locked, snapshot, qvars, evars>>

\* time.time() advances between two cache calls
CacheTick ==
    /\ now < MaxTime
    /\ Tick

-----------------------------------------------------------------------------
(* LRUCache.__init__ *)

CacheConfigs ==
    [max_size : 1..SmallCacheSize,
     default_ttl : {NoneVal, 1},
     enable_metrics : BOOLEAN,
     max_memory_bytes : {NoneVal, SmallMemoryBytes}]

\* One registered hook, which returns
OneHook == {<<"returns">>}

CacheInitWith(configs, registered) ==
    /\ ccfg \in configs
    /\ hooks \in registered
    /\ cache = <<>>
    /\ metrics = CacheMetrics
    /\ locked = FALSE
    /\ snapshot = <<>>
    /\ clast = NoCacheCall
    /\ recency = <<>>

CacheInit(configs) == CacheInitWith(configs, OneHook)

\* No cache in the behaviours of the queue
CacheIdle ==
    CacheInit({[max_size |-> 1, default_ttl |-> NoneVal,
                enable_metrics |-> FALSE, max_memory_bytes |-> NoneVal]})

\* The step is a cache call of op
CacheCalled(op) == clast'.op = op /\ cvars' # cvars

-----------------------------------------------------------------------------
(* LogAnalyticsEngine.__init__ *)

\* An empty tree, and an empty index
Nil == <<>>
NoIndex == [k \in {} |-> <<>>]

NoEngineCall ==
    [op |-> "init", result |-> <<>>, start |-> NoneVal, end |-> NoneVal,
     fired |-> <<>>, logs |-> <<>>, raised |-> "", hook |-> ""]

EngineInit ==
    /\ all_logs = <<>>
    /\ time_index = Nil
    /\ level_index = NoIndex
    /\ source_index = NoIndex
    /\ keyword_index = NoIndex
    /\ alert_rules = <<>>
    /\ triggered_alerts = <<>>
    /\ alert_hooks = [asked |-> <<>>, calls |-> <<>>]
    /\ elast = NoEngineCall

\* No log engine in the behaviours of the queue and of the cache
EngineIdle == EngineInit

-----------------------------------------------------------------------------
(* MessageQueue.__init__ *)

QueueConfigs ==
    {c \in [queue_type : QueueType,
            maxsize : {0, SmallMaxsize},
            enable_persistence : BOOLEAN,
            enable_dead_letter : BOOLEAN,
            dead_letter_maxsize : {SmallMaxsize, DefaultDeadLetterMaxsize}] :
        ~c.enable_dead_letter => c.dead_letter_maxsize = DefaultDeadLetterMaxsize}

QueueInit(configs, histories, thr) ==
    /\ qcfg \in configs
    /\ observe = histories
    /\ queue = <<>>
    /\ processing_messages = [i \in {} |-> i]
    /\ dead_letter_queue = <<>>
    /\ qmetrics = QueueMetrics
    /\ storage = {}
    /\ now = 0
    /\ next_uid = 0
    /\ returned = {}
    /\ completed = {}
    /\ delivered = <<>>
    /\ run = <<>>
    /\ qlast = NoCall
    /\ qlocked = FALSE
    /\ shutdown_event = FALSE
    /\ qorder = [committed |-> <<>>, consumed |-> <<>>]
    /\ threads = thr

\* Where a message id is
Pending(id) == \E i \in DOMAIN queue : queue[i].msg.id = id
InFlight(id) == id \in DOMAIN processing_messages
DeadLettered(id) == \E i \in DOMAIN dead_letter_queue : dead_letter_queue[i].msg.id = id
Completed(id) == id \in completed

\* The step is a call of op (every call records itself in qlast)
Called(op) == qlast' # qlast /\ qlast'.op = op

-----------------------------------------------------------------------------
(* SpecQ: one caller, every variant and bound, no persistence, the clock at   *)
(* rest.  A caller-supplied id is one the queue has not seen before.          *)

InitQ ==
    /\ QueueInit({c \in QueueConfigs : ~c.enable_persistence},
                 {"calls", "ledger"}, <<>>)
    /\ CacheIdle
    /\ EngineIdle

NextQ ==
    \/ /\ next_uid < MaxMsgs
       /\ \E id \in (SuppliedIds \ returned) \cup {NoneVal} :
             Publish(NORMAL, NoneVal, id)
    \/ \E c \in ConsumerIds, n \in 1..MaxBatch : Consume(c, n)
    \/ \E id \in MessageIds : Acknowledge(id)
    \/ \E id \in MessageIds, requeue \in BOOLEAN : Nack(id, requeue)
    \/ \E id \in MessageIds, m \in TestMaxRetries : SetMaxRetries(id, m)

SpecQ == InitQ /\ [][NextQ]_vars

\* C1: every message id that publish returned is in exactly one of the pending
\* container, the in-flight table, the dead-letter buffer and completed
\* (dead-letter enabled, any maxsize and dead_letter_maxsize).
C1_ExactlyOnePlace ==
    qcfg.enable_dead_letter =>
        \A id \in returned :
            Cardinality({p \in {"pending", "in_flight", "dead_letter", "completed"} :
                \/ p = "pending" /\ Pending(id)
                \/ p = "in_flight" /\ InFlight(id)
                \/ p = "dead_letter" /\ DeadLettered(id)
                \/ p = "completed" /\ Completed(id)}) = 1

\* C3: the nack(requeue=true) that ends the (max_retries + 1)-th consume-nack
\* cycle of a message leaves it in the dead-letter buffer with status
\* DEAD_LETTER, neither pending nor in flight (dead-letter enabled), or with
\* status FAILED (dead-letter disabled), and adds one to messages_failed.
C3_DeadLetterAfterRetries ==
    [][\A id \in MessageIds :
        (/\ Called("nack") /\ qlast'.id = id /\ qlast'.requeue
         /\ InFlight(id)
         /\ processing_messages[id].retry_count = processing_messages[id].max_retries)
        => LET uid == processing_messages[id].uid IN
           /\ qmetrics'.messages_failed = qmetrics.messages_failed + 1
           /\ \A i \in DOMAIN queue' : queue'[i].msg.uid # uid
           /\ \A i \in DOMAIN processing_messages' :
                 processing_messages'[i].uid # uid
           /\ IF qcfg.enable_dead_letter
              THEN \E i \in DOMAIN dead_letter_queue' :
                      /\ dead_letter_queue'[i].msg.uid = uid
                      /\ dead_letter_queue'[i].msg.status = "dead_letter"
              ELSE qlast'.msgs[1].status = "failed"]_vars

\* C4: nack(id, requeue=true) on an in-flight message whose incremented
\* retry_count is still <= max_retries puts it back into the pending container
\* with status PENDING and adds one to messages_retried.
C4_NackRequeues ==
    [][\A id \in MessageIds :
        (/\ Called("nack") /\ qlast'.id = id /\ qlast'.requeue
         /\ InFlight(id)
         /\ processing_messages[id].retry_count + 1 <= processing_messages[id].max_retries)
        => /\ qmetrics'.messages_retried = qmetrics.messages_retried + 1
           /\ \E i \in DOMAIN queue' :
                 queue'[i].msg = [processing_messages[id] EXCEPT
                                     !.retry_count = @ + 1, !.status = "pending"]]_vars

-----------------------------------------------------------------------------
(* SpecQP: a persistent queue.  The process can stop at any point and a new   *)
(* MessageQueue be constructed on the same storage_path with the same         *)
(* arguments; __init__ then runs _load_persisted_messages.                    *)

MaxRetryCount == 4    \* no restart once a record on disk has this retry_count

\* The orders in which glob("*.pkl") can list the files of directory ns
load_all_messages(files, ns) ==
    LET dir == {f \in files : f.ns = ns}
    IN {[i \in DOMAIN order |-> order[i].msg] :
           order \in {o \in [1..Cardinality(dir) -> dir] :
                         \A i, j \in DOMAIN o : i # j => o[i] # o[j]}}

\* The loop of _load_persisted_messages over the loaded messages
RECURSIVE LoadLoop(_, _)
LoadLoop(messages, q) ==
    IF messages = <<>> THEN q
    ELSE LET message == Head(messages)
             requeued == [message EXCEPT !.status = "pending",
                                         !.retry_count = @ + 1]
         IN CASE message.status = "pending" ->
                   LoadLoop(Tail(messages),
                            QueuePut(qcfg.queue_type, qcfg.maxsize, q, message, now).q)
              [] message.status = "processing" ->
                   LoadLoop(Tail(messages),
                            QueuePut(qcfg.queue_type, qcfg.maxsize, q, requeued, now).q)
              [] OTHER -> LoadLoop(Tail(messages), q)

\* MessageQueue(name, ..., enable_persistence=True) in a new process
Restart ==
    /\ qcfg.enable_persistence
    /\ \A f \in storage : f.msg.retry_count < MaxRetryCount
    /\ \E messages \in load_all_messages(storage, "q") :
          queue' = LoadLoop(messages, <<>>)
    /\ processing_messages' = [i \in {} |-> i]
    /\ dead_letter_queue' = <<>>
    /\ qmetrics' = QueueMetrics
    /\ run' = Rec("run", run, <<>>)
    /\ qlast' = Rec("calls", qlast, [NoCall EXCEPT !.op = "restart"])
    /\ UNCHANGED <<qcfg, storage, now, next_uid, returned, completed, delivered,
                   observe, qlocked, shutdown_event, qorder, threads, cvars, evars>>

InitQP ==
    /\ QueueInit({c \in QueueConfigs :
                     /\ c.enable_persistence /\ c.enable_dead_letter
                     /\ c.dead_letter_maxsize = DefaultDeadLetterMaxsize},
                 {"calls"}, <<>>)
    /\ CacheIdle
    /\ EngineIdle

NextQP ==
    \/ /\ next_uid < MaxMsgs
       /\ Publish(NORMAL, NoneVal, NoneVal)
    \/ \E c \in ConsumerIds, n \in 1..MaxBatch : Consume(c, n)
    \/ \E id \in DOMAIN processing_messages : Acknowledge(id)
    \/ \E id \in DOMAIN processing_messages : Nack(id, TRUE)
    \/ \E id \in MessageIds, m \in TestMaxRetries : SetMaxRetries(id, m)
    \/ Restart

SpecQP == InitQP /\ [][NextQP]_vars

\* C10: every message in the pending container has retry_count <= max_retries,
\* in every reachable state, the state right after start-up recovery of the
\* persisted PENDING and PROCESSING records included.
C10_PendingWithinRetries ==
    \A i \in DOMAIN queue :
        queue[i].msg.retry_count <= queue[i].msg.max_retries

-----------------------------------------------------------------------------
(* SpecPrio: the priority variant, unbounded, with every priority, a clock    *)
(* that shows two instants, and at most one requeue.                          *)

Instants == {0, 1}

InitPrio ==
    /\ QueueInit({c \in QueueConfigs :
           /\ c.queue_type = "priority" /\ c.maxsize = 0 /\ ~c.enable_persistence
           /\ c.enable_dead_letter /\ c.dead_letter_maxsize = DefaultDeadLetterMaxsize},
           {"run"}, <<>>)
    /\ CacheIdle
    /\ EngineIdle

NextPrio ==
    \/ /\ next_uid < PrioMsgs
       /\ \E p \in MessagePriority : Publish(p, NoneVal, NoneVal)
    \/ \E c \in ConsumerIds, n \in 1..PrioMsgs : Consume(c, n)
    \/ /\ qmetrics.messages_retried = 0
       /\ \E id \in DOMAIN processing_messages : Nack(id, TRUE)
    \/ /\ now + 1 \in Instants
       /\ Tick

SpecPrio == InitPrio /\ [][NextPrio]_vars

\* C7: in the priority variant the messages consume returned since the last
\* publish or requeue (within a batch and across calls) are in non-increasing
\* priority, and those of equal priority in non-decreasing creation time.
C7_PriorityOrder ==
    \A i, j \in DOMAIN run :
        i < j => /\ run[i].priority >= run[j].priority
                 /\ run[i].priority = run[j].priority
                       => run[i].created_at <= run[j].created_at

\* Three messages delivered in an order that is not the order of publication:
\* two priorities, and two creation times within one priority.
C7_Witness ==
    /\ Len(run) = 3
    /\ run[1].priority > run[3].priority
    /\ run[1].priority = run[2].priority
    /\ run[1].created_at < run[2].created_at
    /\ run[3].uid < run[2].uid

-----------------------------------------------------------------------------
(* SpecConc: tests.py test_concurrent_access.  Producer threads publish,      *)
(* consumer threads poll with batch_size 1 and settle what they got; every    *)
(* step of a thread is one piece of code run under self._lock (constructing   *)
(* the Message is outside it).  One nack at most in a behaviour.              *)

Producers == {"producer_0", "producer_1"}
Consumers == {"consumer_0", "consumer_1"}

InitConc ==
    /\ QueueInit({c \in QueueConfigs :
                     /\ ~c.enable_persistence /\ c.enable_dead_letter
                     /\ c.dead_letter_maxsize = DefaultDeadLetterMaxsize},
                 {"ledger", "delivered"},
                 [t \in Producers \cup Consumers |->
                     IF t \in Producers
                     THEN [pc |-> "new", left |-> PerProducer, msgs |-> <<>>]
                     ELSE [pc |-> "consume", left |-> 0, msgs |-> <<>>]])
    /\ CacheIdle
    /\ EngineIdle

\* producer(): message = Message(...) inside publish(), before the lock
ProducerNew(t) ==
    /\ threads[t].pc = "new"
    /\ next_uid' = next_uid + 1
    /\ delivered' = Rec("delivered", delivered,
                        Append(delivered, [consumed |-> 0, requeued |-> 0]))
    /\ threads' = [threads EXCEPT ![t].pc = "commit", ![t].msgs =
          <<NewMessage(next_uid + 1, Uuid4(next_uid + 1), NORMAL, NoneVal, now)>>]
    /\ UNCHANGED <<qcfg, queue, processing_messages, dead_letter_queue, qmetrics,
                   storage, now, returned, completed, run, qlast, observe, qlocked, shutdown_event, qorder, cvars, evars>>

\* producer(): the rest of publish(); RuntimeError ends the thread
ProducerCommit(t) ==
    /\ threads[t].pc = "commit"
    /\ PublishCommit(threads[t].msgs[1])
    /\ threads' = [threads EXCEPT
          ![t].msgs = <<>>,
          ![t].left = @ - 1,
          ![t].pc = IF threads[t].left = 1
                       \/ ~QueuePut(qcfg.queue_type, qcfg.maxsize, queue,
                                    threads[t].msgs[1], now).ok
                    THEN "done" ELSE "new"]
    /\ UNCHANGED <<qcfg, processing_messages, dead_letter_queue, now, next_uid,
                   completed, delivered, observe, qlocked, shutdown_event, cvars, evars>>

\* consumer(): messages = queue.consume(consumer_id)
ConsumerPoll(t) ==
    /\ threads[t].pc = "consume"
    /\ ConsumeCall(t, 1)
    /\ LET r == ConsumeLoop(t, 1, queue, processing_messages, storage, <<>>)
       IN threads' = [threads EXCEPT
             ![t].msgs = r.msgs,
             ![t].pc = IF r.msgs = <<>> THEN "consume" ELSE "settle"]
    /\ UNCHANGED <<qcfg, dead_letter_queue, now, next_uid, returned, completed,
                   observe, qlocked, shutdown_event, cvars, evars>>

ThreadSettled(t) ==
    threads' = [threads EXCEPT
        ![t].msgs = Tail(@),
        ![t].pc = IF Len(threads[t].msgs) = 1 THEN "consume" ELSE "settle"]

\* consumer(): queue.acknowledge(msg.id)
ConsumerAck(t) ==
    /\ threads[t].pc = "settle"
    /\ AcknowledgeCall(threads[t].msgs[1].id)
    /\ ThreadSettled(t)
    /\ UNCHANGED <<qcfg, queue, dead_letter_queue, qmetrics, now, next_uid,
                   returned, delivered, run, observe, qlocked, shutdown_event, qorder, cvars, evars>>

\* a consumer that reports failure instead: queue.nack(msg.id)
ConsumerNack(t) ==
    /\ threads[t].pc = "settle"
    /\ qmetrics.messages_retried + qmetrics.messages_failed = 0
    /\ NackCall(threads[t].msgs[1].id, TRUE)
    /\ ThreadSettled(t)
    /\ UNCHANGED <<qcfg, now, next_uid, returned, completed, observe, qlocked, shutdown_event, qorder, cvars, evars>>

NextConc ==
    \/ \E t \in Producers : ProducerNew(t)
    \/ \E t \in Producers : ProducerCommit(t)
    \/ \E t \in Consumers : ConsumerPoll(t)
    \/ \E t \in Consumers : ConsumerAck(t)
    \/ \E t \in Consumers : ConsumerNack(t)

\* While some thread can take a step, some thread is eventually scheduled
SpecConc == InitConc /\ [][NextConc]_vars /\ WF_vars(NextConc)

AllCommitted == \A t \in Producers : threads[t].pc = "done"
NeverNacked == qmetrics.messages_retried + qmetrics.messages_failed = 0
Published(u) == Uuid4(u) \in returned

\* C8: with concurrent producers and consumers no message is returned by two
\* consume calls unless it was nacked and requeued in between, and once the
\* publishes have committed and the consumers keep polling and acknowledging
\* (no nack), every published message has been returned exactly once.
C8_ConcurrentDelivery ==
    /\ [](\A u \in DOMAIN delivered :
             delivered[u].consumed <= 1 + delivered[u].requeued)
    /\ <>[](NeverNacked =>
               /\ AllCommitted
               /\ qmetrics.messages_consumed = qmetrics.messages_published
               /\ \A u \in DOMAIN delivered :
                     Published(u) => delivered[u].consumed = 1)

\* Both producers have committed a message while the consumers were polling,
\* each consumer got one of them, and both are acknowledged.
C8_Witness ==
    /\ AllCommitted /\ NeverNacked
    /\ qmetrics.messages_published = 2
    /\ qmetrics.messages_consumed = 2
    /\ Cardinality(completed) = 2
    /\ \A t \in Consumers : threads[t].pc = "consume"

-----------------------------------------------------------------------------
(* The cache specifications.  The queue is idle in them; set_many and        *)
(* get_many are loops of set and get that take the lock once per key, so     *)
(* they are sequences of Set and Get steps.                                  *)

QueueIdle(histories) ==
    QueueInit({[queue_type |-> "fifo", maxsize |-> 0,
                enable_persistence |-> FALSE, enable_dead_letter |-> TRUE,
                dead_letter_maxsize |-> DefaultDeadLetterMaxsize]},
              histories, <<>>)

\* Guards that cap the counters
SetBudget == ccfg.enable_metrics => metrics.sets < MaxCount
GetBudget(key) ==
    /\ ccfg.enable_metrics => metrics.hits + metrics.misses < MaxCount
    /\ Has(cache, key) => Entry(cache, key).access_count < MaxCount
DeleteBudget == ccfg.enable_metrics => metrics.deletes < MaxCount

RECURSIVE SumSizes(_)
SumSizes(c) == IF c = <<>> THEN 0 ELSE Head(c).size + SumSizes(Tail(c))

-----------------------------------------------------------------------------
(* SpecRestore: snapshots.  Every operation on a cache without metrics and   *)
(* without a memory bound, entries with and without a TTL, a clock that      *)
(* shows two instants, keys of both types.                                   *)

CacheKeys == {Key("str", "a"), Key("int", "1")}

InitRestore ==
    /\ CacheInit({c \in CacheConfigs :
                     /\ c.default_ttl = NoneVal /\ ~c.enable_metrics
                     /\ c.max_memory_bytes = NoneVal})
    /\ QueueIdle({})
    /\ EngineIdle

NextRestore ==
    \/ \E k \in CacheKeys, ttl \in {NoneVal, 0} : Set(k, "v", ttl)
    \/ \E k \in CacheKeys : GetBudget(k) /\ Get(k, None)
    \/ \E k \in CacheKeys : Delete(k)
    \/ Clear
    \/ \E k \in CacheKeys : Exists(k)
    \/ \E what \in {"keys", "values", "items"} : KeysValuesItems(what)
    \/ CleanupExpired
    \/ Serialize
    \/ Deserialize(snapshot)
    \/ now + 1 \in Instants /\ Tick

SpecRestore == InitRestore /\ [][NextRestore]_vars

\* C2: after any sequence of cache operations, restore from a snapshot
\* included, the cache holds at most max_size entries.
C2_SizeWithinMax == Len(cache) <= ccfg.max_size

-----------------------------------------------------------------------------
(* SpecMemory: a cache with a memory bound, metrics enabled or not, values   *)
(* of two sizes, entries with and without a TTL.                             *)

CacheValues == {"v", "vvv"}

InitMemory ==
    /\ CacheInit({c \in CacheConfigs :
                     /\ c.max_size = SmallCacheSize /\ c.default_ttl = NoneVal
                     /\ c.max_memory_bytes # NoneVal})
    /\ QueueIdle({})
    /\ EngineIdle

NextMemory ==
    \/ \E k \in CacheKeys, v \in CacheValues, ttl \in {NoneVal, 0} :
          SetBudget /\ Set(k, v, ttl)
    \/ \E k \in CacheKeys : GetBudget(k) /\ Get(k, None)
    \/ \E k \in CacheKeys : DeleteBudget /\ Delete(k)
    \/ Clear
    \/ \E k \in CacheKeys : Exists(k)
    \/ CleanupExpired
    \/ reset_metrics
    \/ now + 1 \in Instants /\ Tick

SpecMemory == InitMemory /\ [][NextMemory]_vars

\* C9: when a memory bound is configured, after every completed operation the
\* sizes of the entries held add up to at most the bound, with metrics
\* enabled or not.
C9_MemoryWithinBound ==
    (ccfg.max_memory_bytes # NoneVal /\ ~locked)
        => SumSizes(cache) <= ccfg.max_memory_bytes

-----------------------------------------------------------------------------
(* SpecTTL: entries with and without a TTL, a clock, one observer *)

TTLKeys == {Key("str", "a"), Key("str", "b")}
Defaults == {None, "dflt"}

InitTTL ==
    /\ CacheInit({c \in CacheConfigs : c.max_memory_bytes = NoneVal})
    /\ QueueIdle({"ccalls"})
    /\ EngineIdle

NextTTL ==
    \/ \E k \in TTLKeys, ttl \in {NoneVal, 0} : SetBudget /\ Set(k, "v", ttl)
    \/ \E k \in TTLKeys, d \in Defaults : GetBudget(k) /\ Get(k, d)
    \/ CleanupExpired
    \/ CacheTick

SpecTTL == InitTTL /\ [][NextTTL]_vars

\* The TTL of the entry has elapsed at instant t
TtlElapsed(entry, t) ==
    entry.ttl # NoneVal /\ t > entry.creation_time + entry.ttl

\* C5: get(key) on an entry whose TTL has elapsed removes the entry, fires the
\* expire observer exactly once (then the miss observer), adds one to misses
\* and one to expirations, leaves hits unchanged and returns the caller's
\* default; a get that returns the value of an entry finds its TTL not elapsed.
C5_GetExpired ==
    [][\A k \in TTLKeys :
        (CacheCalled("get") /\ clast'.key = k /\ Has(cache, k)) =>
            IF TtlElapsed(Entry(cache, k), now)
            THEN /\ cache' = SelectSeq(cache, LAMBDA e : e.key # k)
                 /\ clast'.fired = <<Fired("expire", k), Fired("miss", k)>>
                 /\ clast'.result = clast'.default
                 /\ IF ccfg.enable_metrics
                    THEN metrics' = [metrics EXCEPT !.misses = @ + 1,
                                                    !.expirations = @ + 1]
                    ELSE metrics' = metrics
            ELSE /\ clast'.result = Entry(cache, k).value
                 /\ clast'.fired = <<Fired("hit", k)>>]_vars

\* A get that found its entry expired, after a get that hit
C5_Witness ==
    /\ clast.op = "get"
    /\ clast.fired = <<Fired("expire", clast.key), Fired("miss", clast.key)>>
    /\ clast.result = "dflt"
    /\ ccfg.enable_metrics
    /\ metrics.hits = 1 /\ metrics.misses = 1 /\ metrics.expirations = 1
    /\ ~Has(cache, clast.key)

-----------------------------------------------------------------------------
(* SpecLRU: tests/unit_test.py test_lru_eviction.  No TTL, no memory bound,  *)
(* no metrics; five keys.                                                     *)

LRUMaxSize == 3
LRUKeys == {Key("str", k) : k \in {"a", "b", "c", "d", "e"}}

InitLRU ==
    /\ CacheInit([max_size : 1..LRUMaxSize, default_ttl : {NoneVal},
                  enable_metrics : {FALSE}, max_memory_bytes : {NoneVal}])
    /\ QueueIdle({"ccalls", "recency"})
    /\ EngineIdle

NextLRU ==
    \/ \E k \in LRUKeys : Set(k, "v", NoneVal)
    \/ \E k \in LRUKeys : GetBudget(k) /\ Get(k, None)
    \/ \E k \in LRUKeys : Exists(k)
    \/ KeysValuesItems("keys")
    \/ \E k \in LRUKeys : Delete(k)

SpecLRU == InitLRU /\ [][NextLRU]_vars

-----------------------------------------------------------------------------
(* SpecConsume: one caller on an unbounded queue of every variant, two        *)
(* priorities, messages published with and without a delay of one instant,   *)
(* a clock that shows two instants, and at most one requeue.                  *)

ConsumePriorities == {NORMAL, HIGH}
ConsumeDelays == {NoneVal, 1}

InitConsume ==
    /\ QueueInit({c \in QueueConfigs :
           /\ c.maxsize = 0 /\ ~c.enable_persistence
           /\ c.enable_dead_letter /\ c.dead_letter_maxsize = DefaultDeadLetterMaxsize},
           {"calls"}, <<>>)
    /\ CacheIdle
    /\ EngineIdle

NextConsume ==
    \/ /\ next_uid < MaxMsgs
       /\ \E p \in ConsumePriorities, d \in ConsumeDelays : Publish(p, d, NoneVal)
    \/ \E c \in ConsumerIds, n \in 1..MaxBatch : Consume(c, n)
    \/ \E id \in DOMAIN processing_messages : Acknowledge(id)
    \/ /\ qmetrics.messages_retried = 0
       /\ \E id \in DOMAIN processing_messages : Nack(id, TRUE)
    \/ /\ now + 1 \in Instants
       /\ Tick

SpecConsume == InitConsume /\ [][NextConsume]_vars

Min(a, b) == IF a <= b THEN a ELSE b

\* The positions of the pending container a get can return now
Deliverable(q) ==
    {i \in DOMAIN q : qcfg.queue_type = "delay" => q[i].key <= now}

\* In container q the element at position i is handed out no later than the
\* one at position j
HeadFirst(q, i, j) ==
    CASE qcfg.queue_type = "fifo" -> i <= j
      [] qcfg.queue_type = "lifo" -> i >= j
      [] OTHER -> ~EntryLt(qcfg.queue_type, q[j], q[i])

\* C11: consume(consumer_id, batch_size) returns min(batch_size, number of
\* deliverable pending messages) messages, taken from the head of the pending
\* container in the container's order; each returned message is the pending
\* one with status PROCESSING, the caller's consumer_id and processed_at = now,
\* and is in the in-flight table; messages_consumed grows by the number
\* returned; on an empty container nothing is returned and nothing moves.
C11_ConsumeContract ==
    [][Called("consume") =>
        LET msgs == qlast'.msgs
            k == Min(qlast'.batch_size, Cardinality(Deliverable(queue)))
        IN /\ Len(msgs) = k
           /\ \E pos \in [1..k -> Deliverable(queue)] :
                 /\ \A i, j \in 1..k : i < j =>
                       pos[i] # pos[j] /\ HeadFirst(queue, pos[i], pos[j])
                 /\ \A i \in 1..k : \A r \in DOMAIN queue :
                       (\A j \in 1..k : pos[j] # r) => HeadFirst(queue, pos[i], r)
                 /\ \A i \in 1..k :
                       msgs[i] = [queue[pos[i]].msg EXCEPT
                                     !.status = "processing",
                                     !.consumer_id = qlast'.consumer_id,
                                     !.processed_at = now]
                 /\ Len(queue') = Len(queue) - k
                 /\ {queue'[r] : r \in DOMAIN queue'} =
                       {queue[r] : r \in DOMAIN queue \ {pos[i] : i \in 1..k}}
           /\ DOMAIN processing_messages' =
                 DOMAIN processing_messages \cup {msgs[i].id : i \in 1..k}
           /\ \A i \in 1..k : processing_messages'[msgs[i].id] = msgs[i]
           /\ \A id \in DOMAIN processing_messages :
                 processing_messages'[id] = processing_messages[id]
           /\ qmetrics'.messages_consumed = qmetrics.messages_consumed + k
           /\ queue = <<>> =>
                 /\ msgs = <<>>
                 /\ UNCHANGED <<queue, processing_messages, dead_letter_queue,
                                qmetrics>>]_vars

\* A batch of two from the priority variant: the HIGH message published
\* second comes first, both are in flight and counted
C11_Witness ==
    /\ qcfg.queue_type = "priority"
    /\ qlast.op = "consume" /\ qlast.batch_size = 2
    /\ Len(qlast.msgs) = 2
    /\ qlast.msgs[1].uid = 2 /\ qlast.msgs[1].priority = HIGH
    /\ qlast.msgs[2].uid = 1
    /\ \A i \in 1..2 :
          /\ qlast.msgs[i].status = "processing"
          /\ qlast.msgs[i].consumer_id = qlast.consumer_id
          /\ processing_messages[qlast.msgs[i].id] = qlast.msgs[i]
    /\ qmetrics.messages_consumed = 2
    /\ queue = <<>>

\* When the element of a DelayQueue is due: the message's delay_until, or
\* the time of the put for a message that has none
DueAt(e) == IF e.msg.delay_until # NoneVal THEN e.msg.delay_until ELSE e.key

\* C18: in the delay variant consume returns no message before its
\* delay_until; it returns nothing while the earliest delay_until among the
\* pending messages is in the future, and otherwise the first message it
\* returns is the pending one with the smallest delay_until.
C18_DelayOrder ==
    [][(qcfg.queue_type = "delay" /\ Called("consume")) =>
        LET msgs == qlast'.msgs IN
        /\ \A i \in DOMAIN msgs :
              msgs[i].delay_until # NoneVal => msgs[i].delay_until <= now
        /\ (\A r \in DOMAIN queue : DueAt(queue[r]) > now) => msgs = <<>>
        /\ (\E r \in DOMAIN queue : DueAt(queue[r]) <= now) =>
              /\ msgs # <<>>
              /\ \E r \in DOMAIN queue :
                    /\ queue[r].msg.uid = msgs[1].uid
                    /\ \A o \in DOMAIN queue : DueAt(queue[r]) <= DueAt(queue[o])]_vars

\* At instant 1 a batch of two returns only the message that fell due at 1;
\* the one due at 2 stays pending
C18_Witness ==
    /\ qcfg.queue_type = "delay" /\ now = 1
    /\ qlast.op = "consume" /\ qlast.batch_size = 2
    /\ Len(qlast.msgs) = 1 /\ qlast.msgs[1].delay_until = 1
    /\ Len(queue) = 1 /\ queue[1].msg.delay_until = 2

-----------------------------------------------------------------------------
(* SpecAck: one caller that acknowledges and nacks any id, the ids of         *)
(* messages that were never published, are pending, are in flight, were       *)
(* acknowledged or were dead-lettered; unbounded queue, at most one requeue.  *)

InitAck ==
    /\ QueueInit({c \in QueueConfigs :
                     /\ c.maxsize = 0 /\ ~c.enable_persistence
                     /\ c.enable_dead_letter},
                 {"calls", "ledger"}, <<>>)
    /\ CacheIdle
    /\ EngineIdle

NextAck ==
    \/ /\ next_uid < MaxMsgs
       /\ Publish(NORMAL, NoneVal, NoneVal)
    \/ \E c \in ConsumerIds, n \in 1..MaxBatch : Consume(c, n)
    \/ \E id \in MessageIds : Acknowledge(id)
    \/ \E id \in MessageIds, requeue \in BOOLEAN :
          /\ (InFlight(id) /\ requeue) => qmetrics.messages_retried = 0
          /\ Nack(id, requeue)

SpecAck == InitAck /\ [][NextAck]_vars

\* C12: acknowledge(id) and nack(id) for an id that is not in the in-flight
\* table return false and change neither the pending container, the in-flight
\* table, the dead-letter buffer nor the counters; acknowledge of an in-flight
\* id returns true and removes exactly that id from the in-flight table (so a
\* second acknowledge of it returns false).
C12_UnknownIdRejected ==
    [][\A id \in MessageIds :
        ((Called("acknowledge") \/ Called("nack")) /\ qlast'.id = id) =>
            /\ ~InFlight(id) =>
                  /\ ~qlast'.ok
                  /\ UNCHANGED <<queue, processing_messages, dead_letter_queue,
                                 qmetrics>>
            /\ (InFlight(id) /\ Called("acknowledge")) =>
                  /\ qlast'.ok
                  /\ DOMAIN processing_messages' = DOMAIN processing_messages \ {id}
                  /\ \A o \in DOMAIN processing_messages' :
                        processing_messages'[o] = processing_messages[o]
                  /\ UNCHANGED <<queue, dead_letter_queue>>]_vars

\* A second acknowledge of an acknowledged id has just returned false, while
\* another message is dead-lettered
C12_Witness ==
    /\ qlast.op = "acknowledge" /\ ~qlast.ok
    /\ qlast.id \in completed
    /\ ~InFlight(qlast.id) /\ ~Pending(qlast.id)
    /\ Len(dead_letter_queue) = 1
    /\ qmetrics.messages_consumed = 2 /\ qmetrics.messages_failed = 1

-----------------------------------------------------------------------------
(* SpecRecover: a persistent queue of every variant, unbounded or bounded,    *)
(* that is published to, consumed from, settled and restarted on the same     *)
(* storage.  A message is requeued by nack once, and the queue is restarted   *)
(* while no record has been re-delivered MaxRedelivered times.                *)

MaxRedelivered == 1

InitRecover ==
    /\ QueueInit({c \in QueueConfigs :
                     /\ c.enable_persistence /\ c.enable_dead_letter
                     /\ c.dead_letter_maxsize = DefaultDeadLetterMaxsize},
                 {"calls", "ledger"}, <<>>)
    /\ CacheIdle
    /\ EngineIdle

NextRecover ==
    \/ /\ next_uid < MaxMsgs
       /\ Publish(NORMAL, NoneVal, NoneVal)
    \/ \E c \in ConsumerIds, n \in 1..MaxBatch : Consume(c, n)
    \/ \E id \in DOMAIN processing_messages : Acknowledge(id)
    \/ \E id \in DOMAIN processing_messages :
          /\ processing_messages[id].retry_count < MaxRedelivered
          /\ Nack(id, TRUE)
    \/ /\ \A f \in storage : f.msg.retry_count < MaxRedelivered
       /\ Restart

SpecRecover == InitRecover /\ [][NextRecover]_vars

\* C13: publish on a queue with maxsize > 0 whose pending container holds
\* maxsize messages fails and leaves the pending container, the persistence
\* records and messages_published unchanged; and in every reachable state the
\* pending container of a queue with maxsize > 0 holds at most maxsize
\* messages.
C13_PublishOnFull ==
    /\ [][(Called("publish") /\ qcfg.maxsize > 0 /\ Len(queue) >= qcfg.maxsize) =>
            /\ ~qlast'.ok
            /\ UNCHANGED <<queue, storage>>
            /\ qmetrics'.messages_published = qmetrics.messages_published]_vars
    /\ [](qcfg.maxsize > 0 => Len(queue) <= qcfg.maxsize)

\* A publish has just failed on a full persistent queue that holds the one
\* record of its pending message
C13_Witness ==
    /\ qlast.op = "publish" /\ ~qlast.ok
    /\ qcfg.maxsize = SmallMaxsize /\ Len(queue) = qcfg.maxsize
    /\ qmetrics.messages_published = SmallMaxsize
    /\ Cardinality(storage) = SmallMaxsize
    /\ \A f \in storage : f.id # qlast.id

\* C16: after a restart on the same storage the pending container holds every
\* message whose record was PENDING, unchanged, and every message whose record
\* was PROCESSING, with status PENDING and retry_count one higher, and holds
\* no message that was acknowledged before the restart.
C16_RecoveredPending ==
    [][qlast'.op = "restart" =>
        /\ \A f \in storage : f.ns = "q" =>
              /\ f.msg.status = "pending" =>
                    \E i \in DOMAIN queue' : queue'[i].msg = f.msg
              /\ f.msg.status = "processing" =>
                    \E i \in DOMAIN queue' :
                        queue'[i].msg = [f.msg EXCEPT !.status = "pending",
                                                      !.retry_count = @ + 1]
        /\ \A id \in completed : \A i \in DOMAIN queue' : queue'[i].msg.id # id]_vars

-----------------------------------------------------------------------------
(* SpecFifo: the threads of SpecConc on the FIFO variant, with the order in   *)
(* which the publishes committed and the order in which consume returned the  *)
(* messages on record.                                                        *)

InitFifo ==
    /\ QueueInit({c \in QueueConfigs :
                     /\ c.queue_type = "fifo"
                     /\ ~c.enable_persistence /\ c.enable_dead_letter
                     /\ c.dead_letter_maxsize = DefaultDeadLetterMaxsize},
                 {"order", "delivered"},
                 [t \in Producers \cup Consumers |->
                     IF t \in Producers
                     THEN [pc |-> "new", left |-> PerProducer, msgs |-> <<>>]
                     ELSE [pc |-> "consume", left |-> 0, msgs |-> <<>>]])
    /\ CacheIdle
    /\ EngineIdle

SpecFifo == InitFifo /\ [][NextConc]_vars

Nacked(u) == delivered[u].requeued > 0

\* C19: in the FIFO variant, if the publish of A committed before the publish
\* of B and neither message has been nacked, then whenever consume has
\* returned B it has returned A before, also with the publishes and the
\* consumes running on concurrent threads.
C19_FifoCommitOrder ==
    \A i, j \in DOMAIN qorder.committed :
        (i < j /\ ~Nacked(qorder.committed[i]) /\ ~Nacked(qorder.committed[j])) =>
            \A q \in DOMAIN qorder.consumed :
                qorder.consumed[q] = qorder.committed[j] =>
                    \E p \in 1..(q - 1) : qorder.consumed[p] = qorder.committed[i]

\* The Message created second was committed first; the two consumer threads
\* each hold one of the two messages, returned in the order of the commits
C19_Witness ==
    /\ qorder.committed = <<2, 1>>
    /\ qorder.consumed = <<2, 1>>
    /\ \A t \in Consumers : threads[t].pc = "settle"
    /\ \A u \in 1..2 : ~Nacked(u)

-----------------------------------------------------------------------------
(* SpecPurge: purge() on an unbounded queue of every variant.  One pass of    *)
(* its loop is one step: DelayQueue.get reads the clock in every pass, so the *)
(* clock can move between two passes while purge holds self._lock and no      *)
(* other operation runs.  A delayed message falls due within the instants     *)
(* the clock shows.                                                           *)

MaxPurgeCount == 3    \* passes that find nothing due are taken below this count

Purger == "purger"

\* purge(): count = 0; with self._lock:
PurgeEnter(t) ==
    /\ threads[t].pc = "idle"
    /\ ~qlocked
    /\ qlocked' = TRUE
    /\ threads' = [threads EXCEPT ![t].pc = "purging", ![t].left = 0,
                      ![t].msgs = [i \in DOMAIN queue |-> queue[i].msg]]
    /\ UNCHANGED <<qcfg, queue, processing_messages, dead_letter_queue, qmetrics,
                   storage, now, next_uid, returned, completed, delivered, run,
                   qlast, observe, shutdown_event, qorder, cvars, evars>>

\* purge(): one pass of `while not self._queue.empty()`
PurgeIterate(t) ==
    /\ threads[t].pc = "purging"
    /\ queue # <<>>
    /\ LET g == QueueGet(qcfg.queue_type, queue, now) IN
       /\ ~g.some => threads[t].left < MaxPurgeCount
       /\ queue' = g.q
       /\ storage' = IF g.some /\ qcfg.enable_persistence
                     THEN delete_message(storage, "q", g.msg.id)
                     ELSE storage
       /\ threads' = [threads EXCEPT ![t].left = @ + 1]
    /\ UNCHANGED <<qcfg, processing_messages, dead_letter_queue, qmetrics, now,
                   next_uid, returned, completed, delivered, run, qlast, observe,
                   qlocked, shutdown_event, qorder, cvars, evars>>

\* purge(): the loop ends, the lock is released, return count
PurgeReturn(t) ==
    /\ threads[t].pc = "purging"
    /\ queue = <<>>
    /\ qlocked' = FALSE
    /\ threads' = [threads EXCEPT ![t].pc = "idle"]
    /\ qlast' = Rec("calls", qlast,
                    [NoCall EXCEPT !.op = "purge", !.count = threads[t].left,
                                   !.msgs = threads[t].msgs])
    /\ UNCHANGED <<qcfg, queue, processing_messages, dead_letter_queue, qmetrics,
                   storage, now, next_uid, returned, completed, delivered, run,
                   observe, shutdown_event, qorder, cvars, evars>>

InitPurge ==
    /\ QueueInit({c \in QueueConfigs :
                     /\ c.maxsize = 0 /\ c.enable_dead_letter
                     /\ c.dead_letter_maxsize = DefaultDeadLetterMaxsize},
                 {"calls"},
                 [t \in {Purger} |-> [pc |-> "idle", left |-> 0, msgs |-> <<>>]])
    /\ CacheIdle
    /\ EngineIdle

PurgeClock == now + 1 \in Instants /\ Tick

NextPurge ==
    \/ /\ ~qlocked /\ next_uid < MaxMsgs
       /\ \E d \in ConsumeDelays :
             /\ d # NoneVal => now + d \in Instants
             /\ Publish(NORMAL, d, NoneVal)
    \/ /\ ~qlocked
       /\ \E c \in ConsumerIds, n \in 1..MaxBatch : Consume(c, n)
    \/ /\ ~qlocked
       /\ \E id \in DOMAIN processing_messages, requeue \in BOOLEAN :
             /\ requeue => qmetrics.messages_retried = 0
             /\ Nack(id, requeue)
    \/ PurgeEnter(Purger)
    \/ PurgeIterate(Purger)
    \/ PurgeReturn(Purger)
    \/ PurgeClock

\* The thread inside purge() keeps running and the clock keeps moving
SpecPurge ==
    /\ InitPurge /\ [][NextPurge]_vars
    /\ WF_vars(PurgeIterate(Purger)) /\ WF_vars(PurgeReturn(Purger))
    /\ WF_vars(PurgeClock)

\* C20: purge() terminates, returns the number of messages that were pending
\* when it was called, leaves the pending container empty, and changes
\* neither the in-flight table nor the dead-letter buffer.
C20_PurgeCount ==
    /\ (threads[Purger].pc = "purging") ~> (threads[Purger].pc = "idle")
    /\ [][Called("purge") =>
            /\ qlast'.count = Len(qlast'.msgs)
            /\ queue' = <<>>]_vars
    /\ [][(threads[Purger].pc = "purging" \/ threads'[Purger].pc = "purging") =>
            UNCHANGED <<processing_messages, dead_letter_queue>>]_vars

-----------------------------------------------------------------------------
(* SpecDriver: start_consumer with a registered handler, the background       *)
(* workers, and shutdown().  The handler and its failure notifier are the     *)
(* caller's code: handle returns True, returns False or raises, and           *)
(* on_failure returns or raises.  Handling one message, from the return of    *)
(* handle to the acknowledge or nack, is one step.                            *)

Drivers == ConsumerIds
Workers == {"health_monitor", "metrics_updater", "delay_processor"}

HandlerOutcomes == {"success", "failure", "raise"}
NotifierOutcomes == {"returns", "raises"}

\* start_consumer: messages = self.consume(consumer_id, timeout, batch_size)
DriverPoll(t) ==
    /\ threads[t].pc = "poll"
    /\ ~shutdown_event
    /\ ConsumeCall(t, threads[t].batch_size)
    /\ LET r == ConsumeLoop(t, threads[t].batch_size, queue, processing_messages,
                            storage, <<>>)
       IN threads' = [threads EXCEPT
             ![t].msgs = r.msgs,
             ![t].pc = IF r.msgs = <<>> THEN "poll" ELSE "handle"]
    /\ UNCHANGED <<qcfg, dead_letter_queue, now, next_uid, returned, completed,
                   observe, qlocked, shutdown_event, cvars, evars>>

\* start_consumer: `while not self._shutdown_event.is_set()` ends the loop
DriverExit(t) ==
    /\ threads[t].pc = "poll"
    /\ shutdown_event
    /\ threads' = [threads EXCEPT ![t].pc = "stopped"]
    /\ UNCHANGED <<qcfg, queue, processing_messages, dead_letter_queue, qmetrics,
                   storage, now, next_uid, returned, completed, delivered, run,
                   qlast, observe, qlocked, shutdown_event, qorder, cvars, evars>>

\* on_failure is called in the try block when handle returned False, and in
\* the except block when handle, or that first on_failure, raised; nack runs
\* after an on_failure that returned
DriverNacks(outcome, first, second) ==
    \/ outcome = "failure" /\ (first = "returns" \/ second = "returns")
    \/ outcome = "raise" /\ first = "returns"

DriverNotified(outcome, first) ==
    CASE outcome = "success" -> 0
      [] outcome = "failure" -> IF first = "returns" THEN 1 ELSE 2
      [] outcome = "raise" -> 1

\* start_consumer: the body of `for message in messages` for one message;
\* first and second are what the first and the second call of on_failure do
DriverHandle(t, outcome, first, second) ==
    /\ threads[t].pc = "handle"
    /\ LET message == threads[t].msgs[1]
           next == [threads[t] EXCEPT
                       !.msgs = Tail(@),
                       !.pc = IF Len(threads[t].msgs) = 1 THEN "poll" ELSE "handle",
                       !.outcome = outcome,
                       !.notified = DriverNotified(outcome, first)]
       IN CASE outcome = "success" /\ threads[t].auto_ack ->
                 /\ AcknowledgeCall(message.id)
                 /\ threads' = [threads EXCEPT ![t] = next]
                 /\ UNCHANGED <<queue, dead_letter_queue, qmetrics, run, delivered>>
            [] outcome = "success" /\ ~threads[t].auto_ack ->
                 /\ qlast' = Rec("calls", qlast,
                                 [NoCall EXCEPT !.op = "handled", !.id = message.id])
                 /\ threads' = [threads EXCEPT ![t] = next]
                 /\ UNCHANGED <<queue, processing_messages, dead_letter_queue,
                                qmetrics, storage, completed, run, delivered>>
            [] DriverNacks(outcome, first, second) ->
                 /\ NackCall(message.id, TRUE)
                 /\ threads' = [threads EXCEPT ![t] = next]
                 /\ UNCHANGED completed
            [] OTHER ->
                 \* on_failure raised in the except block: the outer
                 \* `except Exception` logs, sleeps and polls again
                 /\ qlast' = Rec("calls", qlast,
                                 [NoCall EXCEPT !.op = "consumer_error",
                                                !.id = message.id, !.ok = FALSE])
                 /\ threads' = [threads EXCEPT ![t] =
                                   [next EXCEPT !.msgs = <<>>, !.pc = "poll"]]
                 /\ UNCHANGED <<queue, processing_messages, dead_letter_queue,
                                qmetrics, storage, completed, run, delivered>>
    /\ UNCHANGED <<qcfg, now, next_uid, returned, observe, qlocked,
                   shutdown_event, qorder, cvars, evars>>

\* _health_monitor, _metrics_updater, _delay_processor: the loop ends at the
\* first test of the event after it is set
WorkerExit(t) ==
    /\ threads[t].pc = "running"
    /\ shutdown_event
    /\ threads' = [threads EXCEPT ![t].pc = "stopped"]
    /\ UNCHANGED <<qcfg, queue, processing_messages, dead_letter_queue, qmetrics,
                   storage, now, next_uid, returned, completed, delivered, run,
                   qlast, observe, qlocked, shutdown_event, qorder, cvars, evars>>

\* concurrent.futures.Executor.shutdown(wait=True, *, cancel_futures=False)
\* has no timeout parameter: the call in shutdown() raises TypeError
ExecutorShutdownRaises == TRUE

\* shutdown(timeout)
Shutdown ==
    /\ ~shutdown_event
    /\ shutdown_event' = TRUE
    /\ IF ExecutorShutdownRaises
       THEN /\ qlast' = Rec("calls", qlast,
                            [NoCall EXCEPT !.op = "shutdown", !.ok = FALSE])
            /\ UNCHANGED <<processing_messages, storage>>
       ELSE /\ processing_messages' =
                  IF qcfg.enable_persistence
                  THEN [id \in DOMAIN processing_messages |->
                           [processing_messages[id] EXCEPT !.status = "pending"]]
                  ELSE processing_messages
            /\ storage' =
                  IF qcfg.enable_persistence
                  THEN {f \in storage :
                           ~(f.ns = "q" /\ f.id \in DOMAIN processing_messages)}
                       \cup {[ns |-> "q", id |-> id,
                              msg |-> [processing_messages[id]
                                          EXCEPT !.status = "pending"]] :
                                id \in DOMAIN processing_messages}
                  ELSE storage
            /\ qlast' = Rec("calls", qlast, [NoCall EXCEPT !.op = "shutdown"])
    /\ UNCHANGED <<qcfg, queue, dead_letter_queue, qmetrics, now, next_uid,
                   returned, completed, delivered, run, observe, qlocked, qorder,
                   threads, cvars, evars>>

\* The threads of the queue: the driver with its ConsumerConfig, and the
\* workers _start_background_tasks submits
DriverThreads(batch_size, auto_ack) ==
    [t \in Drivers \cup Workers |->
        IF t \in Drivers
        THEN [pc |-> "poll", left |-> 0, msgs |-> <<>>, batch_size |-> batch_size,
              auto_ack |-> auto_ack, outcome |-> "none", notified |-> 0]
        ELSE [pc |-> IF t = "delay_processor" /\ qcfg.queue_type # "delay"
                     THEN "stopped" ELSE "running",
              left |-> 0, msgs |-> <<>>, batch_size |-> 0, auto_ack |-> FALSE,
              outcome |-> "none", notified |-> 0]]

InitDriver ==
    /\ \E batch_size \in 1..MaxBatch, auto_ack \in BOOLEAN :
          QueueInit({c \in QueueConfigs :
                        /\ c.maxsize = 0 /\ c.enable_dead_letter
                        /\ c.dead_letter_maxsize = DefaultDeadLetterMaxsize},
                    {"calls"}, DriverThreads(batch_size, auto_ack))
    /\ CacheIdle
    /\ EngineIdle

DriverSteps ==
    \E t \in Drivers :
        \/ DriverExit(t)
        \/ \E outcome \in HandlerOutcomes, first, second \in NotifierOutcomes :
              DriverHandle(t, outcome, first, second)

WorkerSteps == \E t \in Workers : WorkerExit(t)

NextDriver ==
    \/ /\ next_uid < MaxMsgs
       /\ Publish(NORMAL, NoneVal, NoneVal)
    \/ \E t \in Drivers : DriverPoll(t)
    \/ DriverSteps
    \/ WorkerSteps
    \/ Shutdown

\* A thread that can leave its loop, and a driver that has a message to
\* handle, are eventually scheduled
SpecDriver ==
    /\ InitDriver /\ [][NextDriver]_vars
    /\ WF_vars(DriverSteps) /\ WF_vars(WorkerSteps)

\* C14: when the handler returns failure or raises for a consumed message the
\* driver calls the failure notifier and then nacks that message with requeue,
\* so that its retry_count advances by 1, and goes on to the next message of
\* the batch without terminating; when the handler reports success and
\* auto_ack is set, the message is acknowledged.
C14_DriverSettles ==
    [][\A t \in Drivers :
        (threads[t].pc = "handle" /\ threads'[t] # threads[t]) =>
            LET message == threads[t].msgs[1] IN
            /\ threads'[t].outcome \in {"failure", "raise"} =>
                  /\ threads'[t].notified >= 1
                  /\ qlast'.op = "nack" /\ qlast'.id = message.id
                  /\ qlast'.requeue /\ qlast'.ok
                  /\ qlast'.msgs[1].retry_count = message.retry_count + 1
                  /\ message.id \notin DOMAIN processing_messages'
                  /\ threads'[t].msgs = Tail(threads[t].msgs)
                  /\ threads'[t].pc # "stopped"
            /\ (threads'[t].outcome = "success" /\ threads[t].auto_ack) =>
                  /\ qlast'.op = "acknowledge" /\ qlast'.id = message.id
                  /\ qlast'.ok
                  /\ message.id \notin DOMAIN processing_messages']_vars

\* C17: after shutdown() is called the background workers and the consumer
\* loops eventually stop; shutdown() returns, and every message that was in
\* the in-flight table has status PENDING and a record under the queue's own
\* namespace.
C17_ShutdownPersists ==
    /\ shutdown_event ~> (\A t \in Drivers \cup Workers : threads[t].pc = "stopped")
    /\ [][Called("shutdown") =>
            /\ qlast'.ok
            /\ \A id \in DOMAIN processing_messages :
                  /\ id \in DOMAIN processing_messages'
                  /\ processing_messages'[id].status = "pending"
                  /\ [ns |-> "q", id |-> id, msg |-> processing_messages'[id]]
                        \in storage']_vars

-----------------------------------------------------------------------------
(* SpecSnapshot: tests/integration_test.py test_serialization.  A cache is    *)
(* filled, serialized, emptied (a cache that holds nothing, as a new one) and *)
(* restored from the snapshot, at the instant of the snapshot or later; keys  *)
(* of both types, entries with and without a TTL.                             *)

InitSnapshot ==
    /\ CacheInit({c \in CacheConfigs :
                     /\ c.default_ttl = NoneVal /\ ~c.enable_metrics
                     /\ c.max_memory_bytes = NoneVal})
    /\ QueueIdle({"ccalls"})
    /\ EngineIdle

NextSnapshot ==
    \/ \E k \in CacheKeys, ttl \in {NoneVal, 0} : Set(k, "v", ttl)
    \/ Serialize
    \/ Clear
    \/ Deserialize(snapshot)
    \/ now + 1 \in Instants /\ Tick

SpecSnapshot == InitSnapshot /\ [][NextSnapshot]_vars

\* The restored entry carries what the snapshot record was made from
Restores(e, r) ==
    /\ e.key = r.origin
    /\ e.value = r.value
    /\ e.ttl = r.ttl
    /\ e.ttl # NoneVal => e.creation_time + e.ttl = r.creation_time + r.ttl

\* C15: restoring a snapshot into an empty cache yields, for every entry that
\* was not expired at snapshot time and is not expired at restore time, an
\* entry with the same key, the same value and the same expiry deadline, and
\* no other entry; an entry whose deadline has passed is dropped.
C15_SnapshotRoundTrip ==
    [][(CacheCalled("deserialize") /\ cache = <<>>) =>
        /\ \A i \in DOMAIN snapshot :
              ~is_expired(snapshot[i], now) =>
                  \E j \in DOMAIN cache' : Restores(cache'[j], snapshot[i])
        /\ \A j \in DOMAIN cache' :
              \E i \in DOMAIN snapshot :
                  /\ ~is_expired(snapshot[i], now)
                  /\ Restores(cache'[j], snapshot[i])]_vars

-----------------------------------------------------------------------------
(* The counters of the cache, under SpecMemory *)

\* C21: in every reachable state of a cache with metrics, total_size (what
\* memory_usage() returns and the memory-bound test reads) equals the sum of
\* the size estimates of the entries held, also after entries were removed by
\* expiry, by the sweeper, and after reset_metrics.
C21_TotalSizeTracks ==
    (ccfg.enable_metrics /\ ~locked) => metrics.total_size = SumSizes(cache)

Counters == {"hits", "misses", "sets", "deletes", "evictions", "expirations"}

\* C25: hits, misses, sets, deletes, evictions and expirations never decrease
\* across any sequence of public cache operations.
C25_CountersMonotone ==
    [][\A f \in Counters : metrics'[f] >= metrics[f]]_vars

-----------------------------------------------------------------------------
(* SpecSweep: the cleanup thread.  Its rounds (_cleanup_expired) interleave   *)
(* with get, exists, keys/values/items and set of other threads; every one    *)
(* of them runs under self._lock, so an interleaving is a sequence of these   *)
(* steps.  Metrics enabled, entries with and without a TTL.                   *)

Listings == {"keys", "values", "items"}

InitSweep ==
    /\ CacheInit({c \in CacheConfigs :
                     /\ c.max_size = SmallCacheSize /\ c.default_ttl = NoneVal
                     /\ c.enable_metrics /\ c.max_memory_bytes = NoneVal})
    /\ QueueIdle({"ccalls", "recency"})
    /\ EngineIdle

NextSweep ==
    \/ \E k \in TTLKeys, ttl \in {NoneVal, 0} : SetBudget /\ Set(k, "v", ttl)
    \/ \E k \in TTLKeys : GetBudget(k) /\ Get(k, None)
    \/ \E k \in TTLKeys : Exists(k)
    \/ \E what \in Listings : KeysValuesItems(what)
    \/ CleanupExpired
    \/ CacheTick

SpecSweep == InitSweep /\ [][NextSweep]_vars

\* The keys of the entries of c whose TTL has elapsed at instant t
ElapsedKeys(c, t) == {c[i].key : i \in {j \in DOMAIN c : TtlElapsed(c[j], t)}}

\* The entry held under key k is expired and this step takes it out of the
\* cache (the key is gone, or holds another entry)
ExpiredLeaves(k) ==
    /\ Has(cache, k) /\ TtlElapsed(Entry(cache, k), now)
    /\ ~Has(cache', k) \/ Entry(cache', k) # Entry(cache, k)

\* C22: a round of the sweeper removes every expired entry and no other; and
\* in any interleaving of rounds with get, exists, keys and set, an entry
\* that has expired leaves the cache with exactly one expire callback and
\* exactly one expirations increment.
C22_ExpiredRemovedOnce ==
    /\ [][CacheCalled("cleanup") =>
            /\ KeySet(cache') = KeySet(cache) \ ElapsedKeys(cache, now)
            /\ \A i \in DOMAIN cache' : cache'[i] = Entry(cache, cache'[i].key)]_vars
    /\ [][LET gone == {k \in TTLKeys : ExpiredLeaves(k)} IN
          /\ \A k \in gone :
                Cardinality({i \in DOMAIN clast'.fired :
                                clast'.fired[i] = Fired("expire", k)}) = 1
          /\ metrics'.expirations = metrics.expirations + Cardinality(gone)]_vars

\* C26: keys(), values() and items() return the entries that are not expired
\* and only those, from least to most recently used; on return every expired
\* entry is out of the cache with one expire callback and one expirations
\* increment each, and the remaining entries, their order and the hit and
\* miss counters are unchanged.
C26_ListingPurges ==
    [][\A what \in Listings : CacheCalled(what) =>
        LET live == SelectSeq(recency, LAMBDA k :
                        Has(cache, k) /\ ~TtlElapsed(Entry(cache, k), now))
            dead == ElapsedKeys(cache, now)
        IN /\ Len(clast'.list) = Len(live)
           /\ \A i \in DOMAIN live :
                 /\ what # "values" => clast'.list[i].key = live[i]
                 /\ what # "keys" =>
                       clast'.list[i].value = Entry(cache, live[i]).value
           /\ [i \in DOMAIN cache' |-> cache'[i].key] = live
           /\ \A i \in DOMAIN cache' : cache'[i] = Entry(cache, live[i])
           /\ Len(clast'.fired) = Cardinality(dead)
           /\ \A k \in dead :
                 \E i \in DOMAIN clast'.fired : clast'.fired[i] = Fired("expire", k)
           /\ metrics'.expirations = metrics.expirations + Cardinality(dead)
           /\ metrics'.hits = metrics.hits /\ metrics'.misses = metrics.misses]_vars

\* items() has returned the one live entry, b, after purging the expired a
\* that had been set after it
C26_Witness ==
    /\ clast.op = "items"
    /\ clast.fired = <<Fired("expire", Key("str", "a"))>>
    /\ Len(clast.list) = 1 /\ clast.list[1].key = Key("str", "b")
    /\ clast.list[1].value = "v"
    /\ metrics.expirations = 1
    /\ KeySet(cache) = {Key("str", "b")}

-----------------------------------------------------------------------------
(* SpecHooks: a cache with one or more registered hooks, each of which either *)
(* returns or raises whenever it is called.                                   *)

MaxHooks == 2

HookBehaviours == {"returns", "raises"}
\* MaxHooks hooks, at most one of which raises
HookLists ==
    {hs \in [1..MaxHooks -> HookBehaviours] :
        Cardinality({i \in 1..MaxHooks : hs[i] = "raises"}) <= 1}

\* At most MaxHookCalls calls of set, get and delete
MaxHookCalls == 3
HookBudget ==
    metrics.sets + metrics.hits + metrics.misses + metrics.deletes < MaxHookCalls

InitHooks ==
    /\ CacheInitWith({c \in CacheConfigs :
                         /\ c.max_size \in {1, SmallCacheSize}
                         /\ c.default_ttl = NoneVal /\ c.enable_metrics
                         /\ c.max_memory_bytes = NoneVal},
                     HookLists)
    /\ QueueIdle({"ccalls", "recency", "hooks"})
    /\ EngineIdle

NextHooks ==
    \/ \E k \in TTLKeys, ttl \in {NoneVal, 0} : HookBudget /\ Set(k, "v", ttl)
    \/ \E k \in TTLKeys : HookBudget /\ Get(k, None)
    \/ \E k \in TTLKeys : HookBudget /\ Delete(k)
    \/ CleanupExpired
    \/ CacheTick

SpecHooks == InitHooks /\ [][NextHooks]_vars

\* The counter that counts the events of a kind
CounterOf(ev) ==
    CASE ev = "hit" -> "hits"
      [] ev = "miss" -> "misses"
      [] ev = "set" -> "sets"
      [] ev = "delete" -> "deletes"
      [] ev = "expire" -> "expirations"
      [] ev = "evict" -> "evictions"

\* What the hooks found at the i-th event of the call of this step shows the
\* change of the entry map that the event reports
MapApplied(i) ==
    LET e == clast'.fired[i]
        v == clast'.seen[i]
    IN CASE e.ev = "hit" ->
              /\ v.cache # <<>> /\ v.cache[Len(v.cache)].key = e.key
              /\ v.cache[Len(v.cache)].access_count =
                    Entry(cache, e.key).access_count + 1
         [] e.ev = "set" ->
              /\ v.cache # <<>> /\ v.cache[Len(v.cache)].key = e.key
              /\ v.cache[Len(v.cache)].creation_time = now
         [] OTHER -> ~Has(v.cache, e.key)

\* ... and the counter of the event already counts it
CounterApplied(i) ==
    LET e == clast'.fired[i]
        v == clast'.seen[i]
        nth == Cardinality({j \in 1..i : clast'.fired[j].ev = e.ev})
    IN v.metrics[CounterOf(e.ev)] = metrics[CounterOf(e.ev)] + nth

\* C23: every hook call (hit, miss, set, delete, expire, evict) is made after
\* the operation has applied its change to the entry map and to the counters,
\* and while the lock of the cache is held.
C23_HooksAfterCommit ==
    [][cvars' # cvars =>
         \A i \in DOMAIN clast'.seen :
            /\ clast'.seen[i].held
            /\ MapApplied(i)
            /\ CounterApplied(i)]_vars

-----------------------------------------------------------------------------
(* Log analytics engine: LogEntry *)

\* time.time() in seconds; the clock of the model counts ticks of TickSeconds
TickSeconds == 30
EngineTime == (now + 1) * TickSeconds

\* A timestamp string: the ISO-8601 UTC text of the instant t, in the format
\* %Y-%m-%dT%H:%M:%S.%fZ, or a text that no format of _parse_timestamp takes
IsoStamp(t) == [kind |-> "iso", t |-> t]
TextStamp(n) == [kind |-> "text", t |-> n]

\* Python's a < b on two timestamp strings: ISO texts of one format compare
\* as their instants do; an ISO text begins with a digit, the other texts with
\* a letter
StrLess(a, b) == IF a.kind = b.kind THEN a.t < b.t ELSE a.kind = "iso"
StrLeq(a, b) == ~StrLess(b, a)

\* LogEntry._parse_timestamp, for an entry constructed at instant current
parse_timestamp(timestamp, current) ==
    IF timestamp.kind = "iso" THEN timestamp.t ELSE current

\* str.upper() and str.lower() on the levels and words of the model
Upper(level) ==
    CASE level = "error" -> "ERROR"
      [] level = "info" -> "INFO"
      [] OTHER -> level

\* set(re.findall(r'\w+', message.lower()))
Words(message) ==
    CASE message = "Error log" -> {"error", "log"}
      [] message = "Info log" -> {"info", "log"}
      [] OTHER -> {}

LogEntry(timestamp, level, message, source, current) ==
    [timestamp |-> timestamp, level |-> level, message |-> message,
     source |-> source, parsed_time |-> parse_timestamp(timestamp, current)]

\* LogEntry.severity_score
severity_score(entry) ==
    CASE Upper(entry.level) = "ERROR" -> 40
      [] Upper(entry.level) = "INFO" -> 20
      [] OTHER -> 20

\* A value of the key "min_severity" is [int |-> n] or [str |-> s].
\* self.severity_score < value raises TypeError on a str; the keys of a
\* filter are held in the order level, source, min_severity, and the loop
\* returns False at the first key that fails
filter_raises(entry, filters) ==
    /\ "min_severity" \in DOMAIN filters
    /\ "str" \in DOMAIN filters["min_severity"]
    /\ "level" \in DOMAIN filters => entry.level = filters["level"]
    /\ "source" \in DOMAIN filters => entry.source = filters["source"]

\* LogEntry.matches_filter, when it returns: filters maps some of "level",
\* "source", "min_severity" to a value
matches_filter(entry, filters) ==
    \A key \in DOMAIN filters :
        /\ key = "level" => entry.level = filters[key]
        /\ key = "source" => entry.source = filters[key]
        /\ key = "min_severity" =>
              ("int" \in DOMAIN filters[key]
                  /\ severity_score(entry) >= filters[key].int)

-----------------------------------------------------------------------------
(* BinarySearchTree: a node is <<key, value, left, right, height>>; value is   *)
(* one entry, or a list of entries once the key was inserted again            *)

max(a, b) == IF a >= b THEN a ELSE b

Node(key, value) == <<key, [list |-> FALSE, items |-> <<value>>], Nil, Nil, 1>>

height(node) == IF node = Nil THEN 0 ELSE node[5]
balance(node) == IF node = Nil THEN 0 ELSE height(node[3]) - height(node[4])

rotate_right(y) ==
    LET x == y[3]
        T2 == x[4]
        y2 == <<y[1], y[2], T2, y[4], 1 + max(height(T2), height(y[4]))>>
    IN <<x[1], x[2], x[3], y2, 1 + max(height(x[3]), height(y2))>>

\* _rotate_left that leaves the stored heights as they were
rotate_left_stale(x) ==
    LET y == x[4]
        T2 == y[3]
        x2 == <<x[1], x[2], x[3], T2, x[5]>>
    IN <<y[1], y[2], x2, y[4], y[5]>>

rotate_left(x) ==
    LET y == x[4]
        T2 == y[3]
        x2 == <<x[1], x[2], x[3], T2, 1 + max(height(x[3]), height(T2))>>
    IN <<y[1], y[2], x2, y[4], 1 + max(height(x2), height(y[4]))>>

\* The end of _insert: update the height, then the four rotation cases
rebalance(node0, key) ==
    LET node == <<node0[1], node0[2], node0[3], node0[4],
                  1 + max(height(node0[3]), height(node0[4]))>>
        b == balance(node)
    IN IF b > 1 /\ StrLess(key, node[3][1]) THEN rotate_right(node)
       ELSE IF b < -1 /\ StrLess(node[4][1], key) THEN rotate_left(node)
       ELSE IF b > 1 /\ StrLess(node[3][1], key)
       THEN rotate_right(<<node[1], node[2], rotate_left(node[3]), node[4], node[5]>>)
       ELSE IF b < -1 /\ StrLess(key, node[4][1])
       THEN rotate_left(<<node[1], node[2], node[3], rotate_right(node[4]), node[5]>>)
       ELSE node

\* _insert that keeps only the last value of a key
RECURSIVE bst_insert_overwrite(_, _, _)
bst_insert_overwrite(node, key, value) ==
    IF node = Nil THEN Node(key, value)
    ELSE IF StrLess(key, node[1])
    THEN rebalance(<<node[1], node[2], bst_insert_overwrite(node[3], key, value),
                     node[4], node[5]>>, key)
    ELSE IF StrLess(node[1], key)
    THEN rebalance(<<node[1], node[2], node[3],
                     bst_insert_overwrite(node[4], key, value), node[5]>>, key)
    ELSE <<node[1], [list |-> FALSE, items |-> <<value>>],
           node[3], node[4], node[5]>>

\* BinarySearchTree._insert
RECURSIVE bst_insert(_, _, _)
bst_insert(node, key, value) ==
    IF node = Nil THEN Node(key, value)
    ELSE IF StrLess(key, node[1])
    THEN rebalance(<<node[1], node[2], bst_insert(node[3], key, value),
                     node[4], node[5]>>, key)
    ELSE IF StrLess(node[1], key)
    THEN rebalance(<<node[1], node[2], node[3],
                     bst_insert(node[4], key, value), node[5]>>, key)
    ELSE <<node[1],
           IF node[2].list
           THEN [list |-> TRUE, items |-> Append(node[2].items, value)]
           ELSE [list |-> TRUE, items |-> <<node[2].items[1], value>>],
           node[3], node[4], node[5]>>

\* BinarySearchTree._range_query: result with the values of [start, end] added
RECURSIVE bst_range_query(_, _, _, _)
bst_range_query(node, start, end, result) ==
    IF node = Nil THEN result
    ELSE LET r1 == IF StrLess(start, node[1])
                   THEN bst_range_query(node[3], start, end, result)
                   ELSE result
             r2 == IF StrLeq(start, node[1]) /\ StrLeq(node[1], end)
                   THEN IF node[2].list THEN r1 \o node[2].items
                        ELSE Append(r1, node[2].items[1])
                   ELSE r1
         IN IF StrLess(node[1], end)
            THEN bst_range_query(node[4], start, end, r2)
            ELSE r2

\* BinarySearchTree.range_query
range_query(root, start, end) == bst_range_query(root, start, end, <<>>)

-----------------------------------------------------------------------------
(* AlertRule and LogAnalyticsEngine._check_alerts *)

\* Python's truth value of an Optional[float]
Truthy(x) == x # NoneVal /\ x # 0

\* AlertRule.should_trigger without the cooldown test
should_trigger_no_cooldown(rule, count, current_time) ==
    IF ~rule.enabled THEN FALSE
    ELSE IF count < rule.threshold THEN FALSE
    ELSE TRUE

\* AlertRule.should_trigger
should_trigger(rule, count, current_time) ==
    IF ~rule.enabled THEN FALSE
    ELSE IF count < rule.threshold THEN FALSE
    ELSE IF /\ Truthy(rule.last_triggered)
            /\ (current_time - rule.last_triggered) < rule.cooldown
    THEN FALSE
    ELSE TRUE

\* len(sample_logs) < 5
MaxSamples == 5

\* for l in reversed(self.all_logs): from logs[i] down, until an entry is
\* older than window_start or matches_filter raises
RECURSIVE ScanWindow(_, _, _, _, _, _)
ScanWindow(logs, i, window_start, conditions, count, sample_logs) ==
    IF i = 0 THEN [count |-> count, sample_logs |-> sample_logs, raised |-> ""]
    ELSE IF logs[i].parsed_time < window_start
    THEN [count |-> count, sample_logs |-> sample_logs, raised |-> ""]
    ELSE IF filter_raises(logs[i], conditions)
    THEN [count |-> count, sample_logs |-> sample_logs, raised |-> "TypeError"]
    ELSE IF matches_filter(logs[i], conditions)
    THEN ScanWindow(logs, i - 1, window_start, conditions, count + 1,
                    IF Len(sample_logs) < MaxSamples
                    THEN Append(sample_logs, logs[i]) ELSE sample_logs)
    ELSE ScanWindow(logs, i - 1, window_start, conditions, count, sample_logs)

Reversed(seq) == [i \in DOMAIN seq |-> seq[Len(seq) + 1 - i]]

\* for rule in self.alert_rules, from rule i on: [rules, alerts, raised]; an
\* error of the scan leaves the loop and _check_alerts
RECURSIVE CheckRules(_, _, _, _, _)
CheckRules(rules, i, alerts, logs, t) ==
    IF i > Len(rules) THEN [rules |-> rules, alerts |-> alerts, raised |-> ""]
    ELSE LET rule == rules[i]
             scan == ScanWindow(logs, Len(logs), t - rule.time_window,
                                rule.conditions, 0, <<>>)
         IN IF ~rule.enabled THEN CheckRules(rules, i + 1, alerts, logs, t)
            ELSE IF scan.raised # ""
            THEN [rules |-> rules, alerts |-> alerts, raised |-> scan.raised]
            ELSE IF should_trigger(rule, scan.count, t)
            THEN CheckRules([rules EXCEPT ![i].last_triggered = t], i + 1,
                            Append(alerts,
                                   [rule_name |-> rule.name,
                                    severity |-> rule.severity,
                                    triggered_at |-> t, count |-> scan.count,
                                    sample_logs |-> Reversed(scan.sample_logs)]),
                            logs, t)
            ELSE CheckRules(rules, i + 1, alerts, logs, t)

-----------------------------------------------------------------------------
(* LogAnalyticsEngine operations; ingest_log and query_logs run under         *)
(* self._lock                                                                 *)

MaxEngineTime == 3

IndexAppend(index, key, value) ==
    [k \in DOMAIN index \cup {key} |->
        IF k # key THEN index[k]
        ELSE IF k \in DOMAIN index THEN Append(index[k], value) ELSE <<value>>]

IndexAdd(index, keys, value) ==
    [k \in DOMAIN index \cup keys |->
        IF k \notin keys THEN index[k]
        ELSE IF k \in DOMAIN index THEN index[k] \cup {value} ELSE {value}]

\* The fields of the engine, as one record
Engine ==
    [all_logs |-> all_logs, time_index |-> time_index,
     level_index |-> level_index, source_index |-> source_index,
     keyword_index |-> keyword_index, alert_rules |-> alert_rules,
     triggered_alerts |-> triggered_alerts, raised |-> ""]

\* ingest_log(log) at instant t on the engine e: the engine it leaves, and the
\* error it raises ("" when it returns)
ingest_log(e, log, t) ==
    LET logs == Append(e.all_logs, log)
        r == CheckRules(e.alert_rules, 1, e.triggered_alerts, logs, t)
    IN [all_logs |-> logs,
        time_index |-> bst_insert(e.time_index, log.timestamp, log),
        level_index |-> IndexAppend(e.level_index, Upper(log.level), log),
        source_index |-> IF log.source # ""
                         THEN IndexAppend(e.source_index, log.source, log)
                         ELSE e.source_index,
        keyword_index |-> IndexAdd(e.keyword_index, Words(log.message), log),
        alert_rules |-> r.rules,
        triggered_alerts |-> r.alerts,
        raised |-> r.raised]

\* ingest_logs(logs), from logs[i] on: for log in logs: self.ingest_log(log)
RECURSIVE ingest_logs(_, _, _, _)
ingest_logs(e, logs, i, t) ==
    IF i > Len(logs) THEN e
    ELSE LET e2 == ingest_log(e, logs[i], t)
         IN IF e2.raised # "" THEN e2 ELSE ingest_logs(e2, logs, i + 1, t)

\* The engine becomes e
EngineBecomes(e) ==
    /\ all_logs' = e.all_logs
    /\ time_index' = e.time_index
    /\ level_index' = e.level_index
    /\ source_index' = e.source_index
    /\ keyword_index' = e.keyword_index
    /\ alert_rules' = e.alert_rules
    /\ triggered_alerts' = e.triggered_alerts

\* ingest_log(LogEntry(timestamp, level, message, source))
IngestLog(timestamp, level, message, source) ==
    /\ LET log == LogEntry(timestamp, level, message, source, EngineTime)
           e == ingest_log(Engine, log, EngineTime)
       IN /\ EngineBecomes(e)
          /\ elast' = [NoEngineCall EXCEPT !.op = "ingest_log",
                          !.logs = <<log>>, !.raised = e.raised]
    /\ UNCHANGED <<alert_hooks, qvars, cvars>>

\* ingest_logs([LogEntry(timestamp, level, message, source), ...]): stamps is
\* the list of the [timestamp, level] of the entries
IngestLogs(stamps, message, source) ==
    /\ LET logs == [i \in DOMAIN stamps |->
                       LogEntry(stamps[i].timestamp, stamps[i].level, message,
                                source, EngineTime)]
           e == ingest_logs(Engine, logs, 1, EngineTime)
       IN /\ EngineBecomes(e)
          /\ elast' = [NoEngineCall EXCEPT !.op = "ingest_logs",
                          !.logs = logs, !.raised = e.raised]
    /\ UNCHANGED <<alert_hooks, qvars, cvars>>

\* add_alert_notification_hook(hook): LogAnalyticsEngine has no such attribute
AddAlertNotificationHook(hook) ==
    /\ alert_hooks' = [alert_hooks EXCEPT !.asked = Append(@, hook)]
    /\ elast' = [NoEngineCall EXCEPT !.op = "add_alert_notification_hook",
                    !.hook = hook, !.raised = "AttributeError"]
    /\ UNCHANGED <<all_logs, time_index, level_index, source_index,
                   keyword_index, alert_rules, triggered_alerts, qvars, cvars>>

\* query_logs({"start_time": start, "end_time": end})
QueryLogs(start, end) ==
    /\ elast' = [NoEngineCall EXCEPT !.op = "query_logs", !.start = start,
                    !.end = end, !.result = range_query(time_index, start, end)]
    /\ UNCHANGED <<all_logs, time_index, level_index, source_index,
                   keyword_index, alert_rules, triggered_alerts, alert_hooks,
                   qvars, cvars>>

\* add_alert_rule(rule)
AddAlertRule(rule) ==
    /\ alert_rules' = Append(alert_rules, rule)
    /\ elast' = [NoEngineCall EXCEPT !.op = "add_alert_rule"]
    /\ UNCHANGED <<all_logs, time_index, level_index, source_index,
                   keyword_index, triggered_alerts, alert_hooks, qvars, cvars>>

\* time.time() advances between two engine calls
EngineTick ==
    /\ now < MaxEngineTime
    /\ Tick

\* The step is an engine call of op
EngineCalled(op) == elast'.op = op /\ evars' # evars

-----------------------------------------------------------------------------
(* SpecIndex: ingests and time range queries *)

IndexStamps == {IsoStamp(1), IsoStamp(2), IsoStamp(3), TextStamp(1)}
Messages == {"Error log", "Info log"}

MaxIndexLogs == 3

InitIndex ==
    /\ EngineInit
    /\ QueueIdle({})
    /\ CacheIdle

NextIndex ==
    \/ \E ts \in IndexStamps, message \in Messages :
          Len(all_logs) < MaxIndexLogs /\ IngestLog(ts, "INFO", message, "api")
    \/ \E start \in IndexStamps, end \in IndexStamps : QueryLogs(start, end)

SpecIndex == InitIndex /\ [][NextIndex]_vars

\* The entries of logs with a timestamp in S, by ascending timestamp and, for
\* one timestamp, in the order of logs
RECURSIVE ByTimestamp(_, _)
ByTimestamp(logs, S) ==
    IF S = {} THEN <<>>
    ELSE LET first == CHOOSE s \in S : \A r \in S : ~StrLess(r, s)
         IN SelectSeq(logs, LAMBDA l : l.timestamp = first)
               \o ByTimestamp(logs, S \ {first})

\* C27: a time range query for [start, end] returns exactly the ingested
\* entries with start <= timestamp <= end as strings, every entry of a shared
\* timestamp included, by ascending timestamp and in insertion order within a
\* timestamp; so a query for [T, T] holds every entry ingested with T.
C27_RangeQuery ==
    [][EngineCalled("query_logs") =>
        LET start == elast'.start
            end == elast'.end
        IN /\ elast'.result =
                 ByTimestamp(all_logs, {s \in IndexStamps :
                                           StrLeq(start, s) /\ StrLeq(s, end)})
           /\ start = end =>
                 \A i \in DOMAIN all_logs :
                    all_logs[i].timestamp = start =>
                       \E j \in DOMAIN elast'.result :
                          elast'.result[j] = all_logs[i]]_vars

\* A query over [1, 2] after 2, 1, 2 were ingested: the entry of 1, then the
\* two entries of 2 in the order they came
C27_Witness ==
    /\ elast.op = "query_logs"
    /\ elast.start = IsoStamp(1) /\ elast.end = IsoStamp(2)
    /\ Len(all_logs) >= 3
    /\ all_logs[1].timestamp = IsoStamp(2) /\ all_logs[1].message = "Error log"
    /\ all_logs[2].timestamp = IsoStamp(1)
    /\ all_logs[3].timestamp = IsoStamp(2) /\ all_logs[3].message = "Info log"
    /\ Len(elast.result) = 3
    /\ elast.result = <<all_logs[2], all_logs[1], all_logs[3]>>

-----------------------------------------------------------------------------
(* Alerts *)

\* The alerts the ingest of this step has emitted
NewAlerts ==
    SubSeq(triggered_alerts', Len(triggered_alerts) + 1, Len(triggered_alerts'))

\* The entry the ingest of this step has added
NewLog == all_logs'[Len(all_logs')]

\* The entries of logs that match the conditions of rule and whose parsed time
\* lies in [t - time_window, t]
InWindow(logs, rule, t) ==
    {i \in DOMAIN logs :
        /\ matches_filter(logs[i], rule.conditions)
        /\ t - rule.time_window <= logs[i].parsed_time
        /\ logs[i].parsed_time <= t}

\* The rule has never fired, or fired at least cooldown seconds before t
CooledDown(rule, t) ==
    rule.last_triggered = NoneVal \/ t - rule.last_triggered >= rule.cooldown

-----------------------------------------------------------------------------
(* SpecCooldown: the rule of the demo, {level: ERROR, threshold 3, window     *)
(* 120 s, cooldown 60 s}, and entries stamped with the instant of their       *)
(* ingest                                                                     *)

DemoThreshold == 3
DemoWindow == 120
DemoCooldown == 60

DemoRule ==
    [name |-> "High Error Rate", conditions |-> [level |-> "ERROR"],
     severity |-> "high", threshold |-> DemoThreshold,
     time_window |-> DemoWindow, cooldown |-> DemoCooldown,
     enabled |-> TRUE, last_triggered |-> NoneVal]

MaxCooldownLogs == 5

InitCooldown ==
    /\ EngineInit
    /\ QueueIdle({})
    /\ CacheIdle

NextCooldown ==
    \/ alert_rules = <<>> /\ AddAlertRule(DemoRule)
    \/ \E level \in {"ERROR", "INFO"} :
          /\ Len(all_logs) < MaxCooldownLogs
          /\ IngestLog(IsoStamp(EngineTime), level, "Error log", "api")
    \/ EngineTick

SpecCooldown == InitCooldown /\ [][NextCooldown]_vars

\* C29: with the rule {ERROR, threshold 3, window 120 s, cooldown 60 s}, the
\* ingest of a matching entry emits exactly one alert when at least 3 matching
\* entries are in the window and the rule has never fired or fired 60 s or
\* more ago, and sets last_triggered to that instant; no ingest emits an alert
\* otherwise; two alerts of the rule are never less than cooldown apart.
C29_CooldownSeparatesAlerts ==
    /\ [][(EngineCalled("ingest_log") /\ alert_rules # <<>>) =>
            LET rule == alert_rules[1]
                t == EngineTime
                due == /\ Cardinality(InWindow(all_logs', rule, t)) >= rule.threshold
                       /\ CooledDown(rule, t)
            IN /\ (due /\ matches_filter(NewLog, rule.conditions)) =>
                     /\ Len(NewAlerts) = 1
                     /\ NewAlerts[1].rule_name = rule.name
                     /\ NewAlerts[1].triggered_at = t
                     /\ alert_rules'[1].last_triggered = t
               /\ ~due =>
                     /\ NewAlerts = <<>>
                     /\ alert_rules'[1].last_triggered = rule.last_triggered]_vars
    /\ [](\A i \in DOMAIN triggered_alerts : \A j \in DOMAIN triggered_alerts :
             i < j => triggered_alerts[j].triggered_at
                         - triggered_alerts[i].triggered_at >= DemoCooldown)

\* Five ERROR entries: the third one fired the rule, the fourth, less than
\* 60 s later, did not, and the fifth, 60 s after the first alert, fired it again
C29_Witness ==
    /\ Len(all_logs) = 5
    /\ \A i \in DOMAIN all_logs : all_logs[i].level = "ERROR"
    /\ Len(triggered_alerts) = 2
    /\ triggered_alerts[1].triggered_at = all_logs[3].parsed_time
    /\ triggered_alerts[1].count = 3
    /\ all_logs[4].parsed_time > all_logs[3].parsed_time
    /\ all_logs[4].parsed_time - triggered_alerts[1].triggered_at < DemoCooldown
    /\ triggered_alerts[2].triggered_at = all_logs[5].parsed_time
    /\ triggered_alerts[2].triggered_at - triggered_alerts[1].triggered_at
          = DemoCooldown

-----------------------------------------------------------------------------
(* SpecAlert: one rule, and entries with any timestamp string: the instant of *)
(* the ingest, a fixed date in the past, a date ahead of the clock, a text    *)
(* that is not a date                                                         *)

AlertRules ==
    [name : {"TestAlert"}, conditions : {[level |-> "ERROR"]},
     severity : {"high"}, threshold : {1, 2}, time_window : {TickSeconds},
     cooldown : {TickSeconds}, enabled : BOOLEAN, last_triggered : {NoneVal}]

\* timestamp="2025-07-21T12:00:00Z": more than a window before every instant
\* of the clock
FixedDate == IsoStamp(0 - TickSeconds)

MaxAlertLogs == 3

InitAlert ==
    /\ EngineInit
    /\ QueueIdle({})
    /\ CacheIdle

NextAlert ==
    \/ \E rule \in AlertRules : alert_rules = <<>> /\ AddAlertRule(rule)
    \/ \E level \in {"ERROR", "INFO"},
          ts \in {IsoStamp(EngineTime), FixedDate,
                  IsoStamp(EngineTime + TickSeconds), TextStamp(1)} :
          /\ Len(all_logs) < MaxAlertLogs
          /\ IngestLog(ts, level, "Error log", "api")
    \/ EngineTick

SpecAlert == InitAlert /\ [][NextAlert]_vars

\* C28: an ingest emits an alert for a rule only if the rule is enabled, at
\* least threshold entries matching its conditions have their parsed time in
\* [now - time_window, now], and the rule has never fired or fired at least
\* cooldown seconds ago.
C28_AlertOnlyIf ==
    [][EngineCalled("ingest_log") =>
         \A k \in DOMAIN NewAlerts :
            \E i \in DOMAIN alert_rules :
               LET rule == alert_rules[i] IN
               /\ rule.name = NewAlerts[k].rule_name
               /\ rule.enabled
               /\ Cardinality(InWindow(all_logs', rule, EngineTime)) >= rule.threshold
               /\ CooledDown(rule, EngineTime)]_vars

\* C30: once an enabled rule with threshold 1 is added, the ingest of one
\* entry that matches its conditions, whatever its timestamp string, leaves an
\* alert with the name of the rule in get_alerts().
C30_ThresholdOneAlerts ==
    [][EngineCalled("ingest_log") =>
         \A i \in DOMAIN alert_rules :
            LET rule == alert_rules[i] IN
            (rule.enabled /\ rule.threshold = 1
               /\ matches_filter(NewLog, rule.conditions)) =>
                  \E k \in DOMAIN triggered_alerts' :
                     triggered_alerts'[k].rule_name = rule.name]_vars

\* C34: the count of an emitted alert is the number of entries of the master
\* list that match the conditions of its rule and whose parsed time lies in
\* [now - time_window, now], in whatever order the entries were ingested.
C34_AlertCountsWindow ==
    [][EngineCalled("ingest_log") =>
         \A k \in DOMAIN NewAlerts :
            \E i \in DOMAIN alert_rules :
               /\ alert_rules[i].name = NewAlerts[k].rule_name
               /\ NewAlerts[k].count =
                     Cardinality(InWindow(all_logs', alert_rules[i],
                                          EngineTime))]_vars

-----------------------------------------------------------------------------
(* SpecIngest: one rule, whose min_severity may be a number or a text, a       *)
(* caller that asks for alert notifications, single and batch ingests         *)

IngestConditions ==
    {[level |-> "ERROR"], [min_severity |-> [int |-> 40]],
     [min_severity |-> [str |-> "high"]]}

IngestRules ==
    [name : {"IntegrationAlert"}, conditions : IngestConditions,
     severity : {"high"}, threshold : {1}, time_window : {TickSeconds},
     cooldown : {TickSeconds}, enabled : BOOLEAN, last_triggered : {NoneVal}]

MaxIngestLogs == 3
MaxBatchLogs == 2

\* The [timestamp, level] of the entries a caller ingests at this instant
IngestStamps ==
    [timestamp : {IsoStamp(EngineTime), FixedDate}, level : {"ERROR", "INFO"}]

IngestBatches ==
    UNION {[1..n -> IngestStamps] : n \in 1..MaxBatchLogs}

InitIngest ==
    /\ EngineInit
    /\ QueueIdle({})
    /\ CacheIdle

NextIngest ==
    \/ \E rule \in IngestRules : alert_rules = <<>> /\ AddAlertRule(rule)
    \/ alert_hooks.asked = <<>> /\ AddAlertNotificationHook("notify")
    \/ \E st \in IngestStamps :
          /\ Len(all_logs) < MaxIngestLogs
          /\ IngestLog(st.timestamp, st.level, "Error log", "api")
    \/ \E stamps \in IngestBatches :
          /\ Len(all_logs) + Len(stamps) <= MaxIngestLogs
          /\ IngestLogs(stamps, "Error log", "api")
    \/ EngineTick

SpecIngest == InitIngest /\ [][NextIngest]_vars

\* The step is a single or a batch ingest
Ingested == EngineCalled("ingest_log") \/ EngineCalled("ingest_logs")

\* The calls the notification hooks got during this step
NewCalls ==
    SubSeq(alert_hooks'.calls, Len(alert_hooks.calls) + 1, Len(alert_hooks'.calls))

\* C31: when an ingest emits an alert, every alert notification hook the
\* caller registered is called with that alert, once per emitted alert, before
\* the ingest returns.
C31_HooksNotified ==
    [][Ingested =>
         \A h \in DOMAIN alert_hooks.asked : \A k \in DOMAIN NewAlerts :
            Cardinality({j \in DOMAIN NewCalls :
                            NewCalls[j] = [hook |-> alert_hooks.asked[h],
                                           alert |-> NewAlerts[k]]})
               = Cardinality({j \in DOMAIN NewAlerts :
                                 NewAlerts[j] = NewAlerts[k]})]_vars

\* The entry is in the master list and in every index of the engine e
Indexed(e, log) ==
    /\ \E i \in DOMAIN e.all_logs : e.all_logs[i] = log
    /\ LET found == range_query(e.time_index, log.timestamp, log.timestamp)
       IN \E i \in DOMAIN found : found[i] = log
    /\ Upper(log.level) \in DOMAIN e.level_index
    /\ \E i \in DOMAIN e.level_index[Upper(log.level)] :
          e.level_index[Upper(log.level)][i] = log
    /\ log.source # "" =>
          /\ log.source \in DOMAIN e.source_index
          /\ \E i \in DOMAIN e.source_index[log.source] :
                e.source_index[log.source][i] = log
    /\ \A word \in Words(log.message) :
          word \in DOMAIN e.keyword_index /\ log \in e.keyword_index[word]

\* C32: with a rule whose evaluation raises, an ingest still returns normally
\* to its caller, every entry handed to it, the remaining entries of a batch
\* included, is in the master list and in every index afterwards.
C32_IngestSurvivesRuleError ==
    [][(Ingested /\ \E i \in DOMAIN alert_rules :
                       /\ alert_rules[i].enabled
                       /\ \E l \in DOMAIN elast'.logs :
                             filter_raises(elast'.logs[l],
                                           alert_rules[i].conditions)) =>
         /\ elast'.raised = ""
         /\ all_logs' = all_logs \o elast'.logs
         /\ \A l \in DOMAIN elast'.logs : Indexed(Engine', elast'.logs[l])]_vars

-----------------------------------------------------------------------------
(* SpecTree: entries of a few timestamps ingested in any order, any of them   *)
(* more than once                                                             *)

MaxTreeKeys == 5
MaxTreeLogs == 6

TreeStamps == {IsoStamp(t) : t \in 1..MaxTreeKeys}

InitTree ==
    /\ EngineInit
    /\ QueueIdle({})
    /\ CacheIdle

NextTree ==
    \E ts \in TreeStamps :
       /\ Len(all_logs) < MaxTreeLogs
       /\ IngestLog(ts, "INFO", "Info log", "api")

SpecTree == InitTree /\ [][NextTree]_vars

\* The keys of the nodes of a tree, as a bag: a key held by two nodes counts 2
RECURSIVE NodeKeys(_)
NodeKeys(node) ==
    IF node = Nil THEN <<>>
    ELSE NodeKeys(node[3]) \o <<node[1]>> \o NodeKeys(node[4])

\* The number of nodes on the longest path from node down to a leaf
RECURSIVE RealHeight(_)
RealHeight(node) ==
    IF node = Nil THEN 0
    ELSE 1 + max(RealHeight(node[3]), RealHeight(node[4]))

\* At every node: the keys on the left are smaller and the keys on the right
\* larger, the stored height is the real one, the subtrees differ by at most 1
RECURSIVE Balanced(_)
Balanced(node) ==
    node # Nil =>
       /\ \A i \in DOMAIN NodeKeys(node[3]) : StrLess(NodeKeys(node[3])[i], node[1])
       /\ \A i \in DOMAIN NodeKeys(node[4]) : StrLess(node[1], NodeKeys(node[4])[i])
       /\ node[5] = RealHeight(node)
       /\ RealHeight(node[3]) - RealHeight(node[4]) \in {-1, 0, 1}
       /\ Balanced(node[3])
       /\ Balanced(node[4])

\* C36: after any sequence of inserts into the time index, repeated keys
\* included, the tree is a binary search tree on the timestamp strings with
\* exactly one node per distinct key, the stored height of every node is its
\* real height, and the subtrees of every node differ in height by at most 1.
C36_TreeBalanced ==
    /\ Balanced(time_index)
    /\ LET keys == NodeKeys(time_index)
       IN /\ \A i \in DOMAIN keys : \A j \in DOMAIN keys :
                keys[i] = keys[j] => i = j
          /\ {keys[i] : i \in DOMAIN keys}
                = {all_logs[i].timestamp : i \in DOMAIN all_logs}

\* Four keys came in ascending order, which takes left rotations, then the
\* first of them again: four nodes, the tree is 3 high
C36_Witness ==
    /\ Len(all_logs) = 5
    /\ \A i \in 1..3 : StrLess(all_logs[i].timestamp, all_logs[i + 1].timestamp)
    /\ all_logs[5].timestamp = all_logs[1].timestamp
    /\ Len(NodeKeys(time_index)) = 4
    /\ height(time_index) = 3
    /\ time_index[1] = all_logs[2].timestamp

-----------------------------------------------------------------------------
(* SpecEvict: a cache with metrics and a memory bound, values that fit the    *)
(* bound alone, together, or not at all, entries that expire and are removed  *)
(* by get, exists, keys and the sweeper.  Every entry has ttl 0: it expires   *)
(* at the next instant of the clock, and never when set at the last one       *)

\* A value whose size alone is above the bound
BigValue == "vvvvvvvvvvvvvvvvvvvv"
EvictValues == {"v", "vvv", BigValue}

MaxEvictSets == 3
MaxEvictGets == 1
MaxEvictTime == 1

InitEvict ==
    /\ CacheInit({c \in CacheConfigs :
                     /\ c.max_size = SmallCacheSize
                     /\ c.default_ttl = NoneVal /\ c.enable_metrics
                     /\ c.max_memory_bytes # NoneVal})
    /\ QueueIdle({"ccalls"})
    /\ EngineIdle

NextEvict ==
    \/ \E k \in CacheKeys, v \in EvictValues :
          metrics.sets < MaxEvictSets /\ Set(k, v, 0)
    \/ \E k \in CacheKeys :
          metrics.hits + metrics.misses < MaxEvictGets /\ Get(k, None)
    \/ \E k \in CacheKeys : Exists(k)
    \/ KeysValuesItems("keys")
    \/ CleanupExpired
    \/ now < MaxEvictTime /\ Tick

SpecEvict == InitEvict /\ [][NextEvict]_vars

\* C37: set always returns: the eviction loop never finds the cache empty
\* with its condition still true, also after entries were removed by expiry
\* and when one value is larger than the bound.
C37_SetTerminates == ~locked

\* A set returned after it evicted every entry, its own included, while
\* total_size still counts an entry that expiry had removed before
C37_Witness ==
    /\ clast.op = "set"
    /\ ~locked
    /\ cache = <<>>
    /\ metrics.evictions > 0
    /\ metrics.expirations > 0
    /\ metrics.total_size > 0

-----------------------------------------------------------------------------
(* set on a key that is held *)

\* set(key, value, ttl) takes total_size above the memory bound
SetExceeds(key, value) ==
    /\ ccfg.enable_metrics
    /\ ccfg.max_memory_bytes # NoneVal
    /\ metrics.total_size - Entry(cache, key).size + calculate_size(value)
          > ccfg.max_memory_bytes

\* The entry of key is the most recently used one and has this value, TTL
\* and size
Replaced(c, key, value, ttl) ==
    /\ c[Len(c)].key = key
    /\ c[Len(c)].value = value
    /\ c[Len(c)].ttl = (IF ttl # NoneVal THEN ttl ELSE ccfg.default_ttl)
    /\ c[Len(c)].size = calculate_size(value)

\* C33: set on a key already in the cache replaces its value, TTL and size,
\* makes it the most recently used entry, leaves the number of entries
\* unchanged, changes total_size by exactly new size - old size, and evicts
\* another entry only if the memory bound is exceeded afterwards.
C33_SetReplaces ==
    [][\A key \in CacheKeys, value \in CacheValues, ttl \in {NoneVal, 0} :
         (Has(cache, key) /\ Set(key, value, ttl)) =>
            /\ Has(cache', key) => Replaced(cache', key, value, ttl)
            /\ ~SetExceeds(key, value) =>
                  /\ Has(cache', key)
                  /\ Len(cache') = Len(cache)
                  /\ \A i \in DOMAIN cache :
                        cache[i].key # key =>
                           /\ Has(cache', cache[i].key)
                           /\ Entry(cache', cache[i].key) = cache[i]
                  /\ ccfg.enable_metrics =>
                        metrics'.total_size =
                           metrics.total_size + calculate_size(value)
                              - Entry(cache, key).size]_vars

-----------------------------------------------------------------------------
(* SpecDelay: the delay variant, messages of two priorities published with a  *)
(* delay of one or two instants, so that messages created at different        *)
(* instants fall due together                                                 *)

MaxDelayTime == 2
MaxDelayMsgs == 3

InitDelay ==
    /\ QueueInit({c \in QueueConfigs :
           /\ c.queue_type = "delay"
           /\ c.maxsize = 0 /\ ~c.enable_persistence
           /\ c.enable_dead_letter /\ c.dead_letter_maxsize = DefaultDeadLetterMaxsize},
           {"calls"}, <<>>)
    /\ CacheIdle
    /\ EngineIdle

NextDelay ==
    \/ /\ next_uid < MaxDelayMsgs
       /\ \E p \in ConsumePriorities, d \in {1, 2} : Publish(p, d, NoneVal)
    \/ \E c \in ConsumerIds, n \in 1..MaxBatch : Consume(c, n)
    \/ /\ now < MaxDelayTime
       /\ Tick

SpecDelay == InitDelay /\ [][NextDelay]_vars

\* C35: in the delay variant, of two pending messages that are due and have
\* the same delay_until, consume returns the one created earlier first,
\* whatever their priorities: a message is returned only after every due
\* message of its delay_until that was created before it.
C35_DelayTieByCreation ==
    [][(qcfg.queue_type = "delay" /\ Called("consume")) =>
        LET msgs == qlast'.msgs IN
        \A k \in DOMAIN msgs : \A o \in DOMAIN queue :
           (/\ queue[o].msg.delay_until # NoneVal
            /\ queue[o].msg.delay_until = msgs[k].delay_until
            /\ queue[o].msg.delay_until <= now
            /\ queue[o].msg.created_at < msgs[k].created_at) =>
              \E j \in 1..(k - 1) : msgs[j].uid = queue[o].msg.uid]_vars

-----------------------------------------------------------------------------
(* Dead-lettered messages and restart *)

\* C38: with persistence, a message that nack has moved to the dead-letter
\* buffer or marked FAILED is not in the pending container of the queue
\* restarted on the same name and storage path: it is never delivered again.
C38_DeadLetterStaysDead ==
    [][Called("restart") =>
         \A f \in storage :
            f.ns = "q_failed" =>
               \A i \in DOMAIN queue' : queue'[i].msg.id # f.id]_vars

-----------------------------------------------------------------------------
(* The consumer driver with auto_ack *)

\* The ids of the messages in flight that consumer t has consumed
InFlightOf(t) ==
    {id \in DOMAIN processing_messages :
        processing_messages[id].consumer_id = t}

\* C39: with auto_ack set, every message the consumer driver consumes is
\* removed from the in-flight table by an acknowledge or a nack before the
\* driver consumes its next batch, whatever the handler and its failure
\* notifier do and whatever the batch size; no message consumed by the driver
\* stays in flight forever.
C39_DriverClearsInFlight ==
    /\ [](\A t \in Drivers :
             (threads[t].auto_ack /\ threads[t].pc = "poll") =>
                InFlightOf(t) = {})
    /\ \A t \in Drivers : \A u \in 1..MaxMsgs :
          (threads[t].auto_ack /\ Uuid4(u) \in InFlightOf(t))
             ~> (Uuid4(u) \notin InFlightOf(t))

-----------------------------------------------------------------------------
(* Counters and containers *)

\* C40: in every state reached by publish, consume, acknowledge and nack
\* only, messages_published + messages_retried - messages_consumed is the
\* number of pending messages, and messages_consumed - successful
\* acknowledges - messages_retried - messages_failed is the number of
\* messages in flight.
C40_CountersAgree ==
    /\ qmetrics.messages_published + qmetrics.messages_retried
          - qmetrics.messages_consumed = Len(queue)
    /\ qmetrics.messages_consumed - Cardinality(completed)
          - qmetrics.messages_retried - qmetrics.messages_failed
             = Cardinality(DOMAIN processing_messages)

====
